---------------------------- MODULE Spec2Model ----------------------------
(***************************************************************************)
(* A model of the VirtIO MMIO transport, the virtqueue engine and the      *)
(* notification worker of tinyemu-virtio (src/src/virtio.c).               *)
(*                                                                         *)
(* 64-bit feature words are sets of bit positions (a uint64_t has bits     *)
(* 0..63); 32-bit register values are naturals; a 64-bit guest-physical    *)
(* address is the pair <<high 32 bits, low 32 bits>>.                      *)
(***************************************************************************)
EXTENDS Integers, Sequences, FiniteSets, TLC

(***************************************************************************)
(* Program constants                                                       *)
(***************************************************************************)
VIRTIO_STAT_ACKNOWLEDGE == 1
VIRTIO_STAT_DRIVER == 2
VIRTIO_STAT_DRIVER_OK == 4
VIRTIO_STAT_FEATURES_OK == 8
\* VIRTIO_F_VERSION_1 is BIT(32): the bit position
VIRTIO_F_VERSION_1 == 32

VIRTIO_MMIO_DEVICE_FEATURES_SEL == 20
VIRTIO_MMIO_DRIVER_FEATURES == 32
VIRTIO_MMIO_DRIVER_FEATURES_SEL == 36
VIRTIO_MMIO_QUEUE_SEL == 48
VIRTIO_MMIO_QUEUE_NUM == 56
VIRTIO_MMIO_QUEUE_READY == 68
VIRTIO_MMIO_QUEUE_NOTIFY == 80
VIRTIO_MMIO_INTERRUPT_ACK == 100
VIRTIO_MMIO_STATUS == 112
VIRTIO_MMIO_QUEUE_DESC_LOW == 128
VIRTIO_MMIO_QUEUE_DESC_HIGH == 132
VIRTIO_MMIO_QUEUE_AVAIL_LOW == 144
VIRTIO_MMIO_QUEUE_AVAIL_HIGH == 148
VIRTIO_MMIO_QUEUE_USED_LOW == 160
VIRTIO_MMIO_QUEUE_USED_HIGH == 164
VIRTIO_MMIO_CONFIG == 256

MAX_QUEUE == 8
MAX_QUEUE_NUM == 16

VRING_DESC_F_NEXT == 1
VRING_DESC_F_WRITE == 2

\* 2^16: the modulus of the uint16_t ring indices
U16 == 65536

(***************************************************************************)
(* Bit operations on naturals (C's &, |, ^ on unsigned values)             *)
(***************************************************************************)
RECURSIVE BitAnd(_, _)
BitAnd(a, b) ==
    IF a = 0 \/ b = 0 THEN 0
    ELSE (a % 2) * (b % 2) + 2 * BitAnd(a \div 2, b \div 2)

RECURSIVE BitOr(_, _)
BitOr(a, b) ==
    IF a = 0 THEN b
    ELSE IF b = 0 THEN a
    ELSE (IF a % 2 = 1 \/ b % 2 = 1 THEN 1 ELSE 0) + 2 * BitOr(a \div 2, b \div 2)

RECURSIVE BitXor(_, _)
BitXor(a, b) ==
    IF a = 0 THEN b
    ELSE IF b = 0 THEN a
    ELSE ((a + b) % 2) + 2 * BitXor(a \div 2, b \div 2)

\* a & ~b
BitAndNot(a, b) == a - BitAnd(a, b)

\* the bit positions set in the natural v, counted from position b
RECURSIVE BitsFrom(_, _)
BitsFrom(v, b) ==
    IF v = 0 THEN {}
    ELSE (IF v % 2 = 1 THEN {b} ELSE {}) \cup BitsFrom(v \div 2, b + 1)

\* ((uint64_t) val) << sh as a set of bit positions of a 64-bit word
Shl64(val, sh) == {b \in BitsFrom(val, sh) : b < 64}

(***************************************************************************)
(* Device state: struct VIRTIODevice and QueueState                        *)
(***************************************************************************)
QueueIdx == 0 .. (MAX_QUEUE - 1)

\* a QueueState as memset(0) leaves it
ZeroQueue ==
    [ready |-> 0, num |-> 0, avail_idx |-> 0, last_avail_idx |-> 0,
     desc_addr |-> <<0, 0>>, avail_addr |-> <<0, 0>>, used_addr |-> <<0, 0>>,
     manual_recv |-> FALSE]

\* device_id and device_features as the virtio_*_init functions set them
DeviceKinds == {"block", "net", "console", "entropy", "input", "9p"}

DeviceId(kind) ==
    CASE kind = "net" -> 1
      [] kind = "block" -> 2
      [] kind = "console" -> 3
      [] kind = "entropy" -> 4
      [] kind = "9p" -> 9
      [] kind = "input" -> 18

DeviceFeatures(kind) ==
    CASE kind = "block" -> {VIRTIO_F_VERSION_1, 2}
      [] kind = "net" -> {VIRTIO_F_VERSION_1, 5}
      [] kind = "console" -> {VIRTIO_F_VERSION_1, 0}
      [] kind = "entropy" -> {}
      [] kind = "input" -> {VIRTIO_F_VERSION_1}
      [] kind = "9p" -> {VIRTIO_F_VERSION_1, 0}

\* queue 0 of net, console and input is pulled by the device (manual_recv)
ManualRecv(kind, q) == q = 0 /\ kind \in {"net", "console", "input"}

virtio_reset(s) ==
    [s EXCEPT
        !.status = 0,
        !.queue_sel = 0,
        !.device_features_sel = 0,
        !.driver_features_sel = 0,
        !.int_status = 0,
        !.queue = [i \in QueueIdx |->
                     [s.queue[i] EXCEPT
                        !.ready = 0,
                        !.num = MAX_QUEUE_NUM,
                        !.desc_addr = <<0, 0>>,
                        !.avail_addr = <<0, 0>>,
                        !.used_addr = <<0, 0>>,
                        !.last_avail_idx = 0]],
        !.driver_features = {},
        !.negotiated_features = {}]

\* memset(s, 0), the fields virtio_init and virtio_<kind>_init set, then
\* virtio_reset
virtio_init(kind) ==
    LET zero ==
          [kind |-> kind,
           device_id |-> DeviceId(kind),
           device_features |-> DeviceFeatures(kind),
           int_status |-> 0, status |-> 0,
           device_features_sel |-> 0, driver_features_sel |-> 0,
           queue_sel |-> 0,
           queue |-> [i \in QueueIdx |->
                        [ZeroQueue EXCEPT !.manual_recv = ManualRecv(kind, i)]],
           driver_features |-> {}, negotiated_features |-> {},
           irq |-> 0]
    IN  virtio_reset(zero)

set_low32(paddr, val) == <<paddr[1], val>>

set_high32(paddr, val) == <<val, paddr[2]>>

\* "if (((s->status & FEATURES_OK) == 0) && (val & FEATURES_OK))"
SettingFeaturesOk(s, val) ==
    /\ BitAnd(s.status, VIRTIO_STAT_FEATURES_OK) = 0
    /\ BitAnd(val, VIRTIO_STAT_FEATURES_OK) # 0

\* a negotiation that does not ask for VIRTIO_F_VERSION_1
NegotiationSubsetOnly(s) ==
    (s.driver_features \cap s.device_features) = s.driver_features

\* "(negotiated_features == s->driver_features) &&
\*  (negotiated_features & VIRTIO_F_VERSION_1)"
NegotiationOk(s) ==
    LET negotiated_features == s.driver_features \cap s.device_features
    IN  /\ negotiated_features = s.driver_features
        /\ VIRTIO_F_VERSION_1 \in negotiated_features

\* a Status write that commits whatever the driver wrote
StatusCommitUnchecked(s, val) == val

\* a Status write that falls back to ACKNOWLEDGE when the negotiation fails
StatusCommitFallsBack(s, val) ==
    IF SettingFeaturesOk(s, val) /\ ~NegotiationOk(s)
    THEN VIRTIO_STAT_ACKNOWLEDGE
    ELSE val

\* the value a Status write commits: FEATURES_OK is taken out of val when the
\* negotiation fails
StatusCommit(s, val) ==
    IF SettingFeaturesOk(s, val) /\ ~NegotiationOk(s)
    THEN BitXor(val, VIRTIO_STAT_FEATURES_OK)
    ELSE val

\* case VIRTIO_MMIO_DRIVER_FEATURES
DriverFeaturesWrite(s, val) ==
    CASE s.driver_features_sel = 0 ->
           [s EXCEPT !.driver_features = @ \cup Shl64(val, 0)]
      [] s.driver_features_sel = 1 ->
           [s EXCEPT !.driver_features = @ \cup Shl64(val, 32)]
      [] OTHER -> s

\* case VIRTIO_MMIO_STATUS
StatusWrite(s, val) ==
    LET v == StatusCommit(s, val)
        s1 == IF SettingFeaturesOk(s, val) /\ NegotiationOk(s)
              THEN [s EXCEPT !.negotiated_features =
                                 s.driver_features \cap s.device_features]
              ELSE s
        s2 == [s1 EXCEPT !.status = v]
    IN  IF v = 0 THEN virtio_reset([s2 EXCEPT !.irq = 0]) ELSE s2

\* an acknowledge that leaves the interrupt line as it is
InterruptAckKeepsIrq(s, val) ==
    [s EXCEPT !.int_status = BitAndNot(s.int_status, val)]

\* case VIRTIO_MMIO_INTERRUPT_ACK
InterruptAck(s, val) ==
    LET st == BitAndNot(s.int_status, val)
    IN  [s EXCEPT !.int_status = st,
                  !.irq = IF st = 0 THEN 0 ELSE @]

\* virtio_mmio_write on the device record, size_log2 = 2, for every offset
\* but QueueNotify (whose effect is on pending_queue_notify: see
\* async_queue_notify)
virtio_mmio_write(s, offset, val) ==
    CASE offset >= VIRTIO_MMIO_CONFIG -> s
      [] offset = VIRTIO_MMIO_DEVICE_FEATURES_SEL ->
           [s EXCEPT !.device_features_sel = val]
      [] offset = VIRTIO_MMIO_DRIVER_FEATURES_SEL ->
           [s EXCEPT !.driver_features_sel = val]
      [] offset = VIRTIO_MMIO_DRIVER_FEATURES -> DriverFeaturesWrite(s, val)
      [] offset = VIRTIO_MMIO_QUEUE_SEL ->
           IF val < MAX_QUEUE THEN [s EXCEPT !.queue_sel = val] ELSE s
      [] offset = VIRTIO_MMIO_QUEUE_NUM ->
           IF val > 0 /\ BitAnd(val, val - 1) = 0
           THEN [s EXCEPT !.queue[s.queue_sel].num = val]
           ELSE s
      [] offset = VIRTIO_MMIO_QUEUE_DESC_LOW ->
           [s EXCEPT !.queue[s.queue_sel].desc_addr = set_low32(@, val)]
      [] offset = VIRTIO_MMIO_QUEUE_AVAIL_LOW ->
           [s EXCEPT !.queue[s.queue_sel].avail_addr = set_low32(@, val)]
      [] offset = VIRTIO_MMIO_QUEUE_USED_LOW ->
           [s EXCEPT !.queue[s.queue_sel].used_addr = set_low32(@, val)]
      [] offset = VIRTIO_MMIO_QUEUE_DESC_HIGH ->
           [s EXCEPT !.queue[s.queue_sel].desc_addr = set_high32(@, val)]
      [] offset = VIRTIO_MMIO_QUEUE_AVAIL_HIGH ->
           [s EXCEPT !.queue[s.queue_sel].avail_addr = set_high32(@, val)]
      [] offset = VIRTIO_MMIO_QUEUE_USED_HIGH ->
           [s EXCEPT !.queue[s.queue_sel].used_addr = set_high32(@, val)]
      [] offset = VIRTIO_MMIO_STATUS -> StatusWrite(s, val)
      [] offset = VIRTIO_MMIO_QUEUE_READY ->
           [s EXCEPT !.queue[s.queue_sel].ready = BitAnd(val, 1)]
      [] offset = VIRTIO_MMIO_INTERRUPT_ACK -> InterruptAck(s, val)
      [] OTHER -> s

(***************************************************************************)
(* 32-bit words.  A uint32_t or an int of the program is a pair <<hi, lo>> *)
(* of 16-bit halves, so that sums wrap at 2^32 as they do in the program.  *)
(***************************************************************************)
W32(n) == <<n \div U16, n % U16>>

Add32(a, b) ==
    LET lo == a[2] + b[2]
        hi == a[1] + b[1] + (lo \div U16)
    IN  <<hi % U16, lo % U16>>

Sub32(a, b) ==
    LET lo == a[2] - b[2]
        borrow == IF lo < 0 THEN 1 ELSE 0
        hi == a[1] - b[1] - borrow
    IN  <<hi % U16, lo % U16>>

\* unsigned comparison a < b
Less32(a, b) == a[1] < b[1] \/ (a[1] = b[1] /\ a[2] < b[2])

\* the word read as an int is negative
IsNegative(w) == w[1] >= 32768

\* the value of a word that is not negative when read as an int
IntOf(w) == w[1] * U16 + w[2]

(***************************************************************************)
(* Descriptor chains (struct VIRTIODesc: addr, len, flags, next)           *)
(***************************************************************************)
HasFlag(desc, f) == BitAnd(desc.flags, f) # 0

\* get_desc: the descriptor at desc_idx of the queue's descriptor table
get_desc(table, desc_idx) == table[desc_idx]

\* The two loops of get_desc_rw_size.  phase 1 sums the readable run, phase
\* 2 the writable run.  The walk depends only on <<phase, desc_idx>>, so a
\* second visit of the same pair means the loop never ends: returns = FALSE.
RECURSIVE rw_size_walk(_, _, _, _, _, _)
rw_size_walk(table, phase, desc_idx, read_size, write_size, visited) ==
    LET desc == get_desc(table, desc_idx)
        done(r, w) == [returns |-> TRUE, ret |-> 0, read_size |-> r, write_size |-> w]
    IN  IF <<phase, desc_idx>> \in visited
        THEN [returns |-> FALSE, ret |-> 0, read_size |-> read_size,
              write_size |-> write_size]
        ELSE IF phase = 1
        THEN IF HasFlag(desc, VRING_DESC_F_WRITE)
             THEN rw_size_walk(table, 2, desc_idx, read_size, write_size, visited)
             ELSE LET r == Add32(read_size, desc.len)
                  IN  IF ~HasFlag(desc, VRING_DESC_F_NEXT)
                      THEN done(r, write_size)
                      ELSE rw_size_walk(table, 1, desc.next, r, write_size,
                                        visited \cup {<<1, desc_idx>>})
        ELSE IF ~HasFlag(desc, VRING_DESC_F_WRITE)
             THEN [returns |-> TRUE, ret |-> -1, read_size |-> W32(0),
                   write_size |-> W32(0)]
             ELSE LET w == Add32(write_size, desc.len)
                  IN  IF ~HasFlag(desc, VRING_DESC_F_NEXT)
                      THEN done(read_size, w)
                      ELSE rw_size_walk(table, 2, desc.next, read_size, w,
                                        visited \cup {<<2, desc_idx>>})

\* get_desc_rw_size that reports every chain as well-formed
get_desc_rw_size_never_fails(table, desc_idx) ==
    [returns |-> TRUE, ret |-> 0, read_size |-> W32(16), write_size |-> W32(1)]

\* get_desc_rw_size: [returns, ret, read_size, write_size]; the sizes are the
\* ints stored through pread_size and pwrite_size (nothing is stored on -1)
get_desc_rw_size(table, desc_idx) ==
    rw_size_walk(table, 1, desc_idx, W32(0), W32(0), {})

min_int(a, b) == IF a < b THEN a ELSE b

\* the outcome of a copy: returns = FALSE when a loop never ends; undefined =
\* TRUE when a negative length reached virtio_memcpy_to_ram/from_ram (the
\* size_t conversion makes the DMA loop run past buf); copies lists, in
\* order, the pairs <<guest address, index in buf>> of the bytes moved
CopyOutcome(returns, ret, undefined, copies) ==
    [returns |-> returns, ret |-> ret, undefined |-> undefined, copies |-> copies]

\* "find the first write descriptor"; -1 stands for the return of -1 and -2
\* for a walk that never ends
RECURSIVE first_write_desc(_, _, _)
first_write_desc(table, desc_idx, visited) ==
    LET desc == get_desc(table, desc_idx)
    IN  IF desc_idx \in visited THEN -2
        ELSE IF HasFlag(desc, VRING_DESC_F_WRITE) THEN desc_idx
        ELSE IF ~HasFlag(desc, VRING_DESC_F_NEXT) THEN -1
        ELSE first_write_desc(table, desc.next, visited \cup {desc_idx})

\* "find the descriptor at offset": [desc_idx, offset], desc_idx as above
RECURSIVE desc_at_offset(_, _, _, _, _)
desc_at_offset(table, desc_idx, offset, to_queue, visited) ==
    LET desc == get_desc(table, desc_idx)
    IN  IF <<desc_idx, offset>> \in visited
        THEN [desc_idx |-> -2, offset |-> offset]
        ELSE IF HasFlag(desc, VRING_DESC_F_WRITE) # to_queue
        THEN [desc_idx |-> -1, offset |-> offset]
        ELSE IF Less32(W32(offset), desc.len)
        THEN [desc_idx |-> desc_idx, offset |-> offset]
        ELSE IF ~HasFlag(desc, VRING_DESC_F_NEXT)
        THEN [desc_idx |-> -1, offset |-> offset]
        ELSE desc_at_offset(table, desc.next, offset - IntOf(desc.len), to_queue,
                            visited \cup {<<desc_idx, offset>>})

\* the copy loop; pos is the distance buf has advanced
RECURSIVE copy_loop(_, _, _, _, _, _, _, _)
copy_loop(table, desc_idx, offset, count, pos, to_queue, copies, visited) ==
    LET desc == get_desc(table, desc_idx)
        room == Sub32(desc.len, W32(offset))
        l == IF IsNegative(room) THEN -1 ELSE min_int(count, IntOf(room))
        moved == copies \o [k \in 1 .. l |-> <<desc.addr + offset + (k - 1), pos + (k - 1)>>]
    IN  IF <<desc_idx, offset, count>> \in visited
        THEN CopyOutcome(FALSE, 0, FALSE, copies)
        ELSE IF l < 0
        THEN CopyOutcome(TRUE, 0, TRUE, copies)
        ELSE IF count - l = 0
        THEN CopyOutcome(TRUE, 0, FALSE, moved)
        ELSE IF W32(offset + l) # desc.len
        THEN copy_loop(table, desc_idx, offset + l, count - l, pos + l, to_queue,
                       moved, visited \cup {<<desc_idx, offset, count>>})
        ELSE IF ~HasFlag(desc, VRING_DESC_F_NEXT)
        THEN CopyOutcome(TRUE, -1, FALSE, moved)
        ELSE IF HasFlag(get_desc(table, desc.next), VRING_DESC_F_WRITE) # to_queue
        THEN CopyOutcome(TRUE, -1, FALSE, moved)
        ELSE copy_loop(table, desc.next, 0, count - l, pos + l, to_queue,
                       moved, visited \cup {<<desc_idx, offset, count>>})

memcpy_to_from_queue(table, desc_idx, offset, count, to_queue) ==
    IF count = 0 THEN CopyOutcome(TRUE, 0, FALSE, <<>>)
    ELSE LET first == IF to_queue THEN first_write_desc(table, desc_idx, {})
                      ELSE desc_idx
             at == IF first < 0 THEN [desc_idx |-> first, offset |-> offset]
                   ELSE desc_at_offset(table, first, offset, to_queue, {})
         IN  IF at.desc_idx = -2 THEN CopyOutcome(FALSE, 0, FALSE, <<>>)
             ELSE IF at.desc_idx = -1 THEN CopyOutcome(TRUE, -1, FALSE, <<>>)
             ELSE copy_loop(table, at.desc_idx, at.offset, count, 0, to_queue,
                            <<>>, {})

memcpy_from_queue(table, desc_idx, offset, count) ==
    memcpy_to_from_queue(table, desc_idx, offset, count, FALSE)

memcpy_to_queue(table, desc_idx, offset, count) ==
    memcpy_to_from_queue(table, desc_idx, offset, count, TRUE)

(***************************************************************************)
(* State                                                                   *)
(***************************************************************************)
VARIABLES
    dev,                \* the device (struct VIRTIODevice)
    last_write,         \* the last MMIO write served: [offset, val]
    features_accepted   \* history: FEATURES_OK was accepted since the last reset

regVars == <<dev, last_write, features_accepted>>

VARIABLES
    pending_queue_notify,  \* per device of the worker: the atomic bit set
    pending_notify,        \* the worker's flag, guarded by pending_notify_lock
    pending_notify_stop,   \* the worker's stop flag, guarded by the same lock
    worker,                \* pending_notify_worker: [pc, i, notify, j]
    callers,               \* threads inside async_queue_notify: [pc, d, q]
    unserved,              \* history: <<d, q>> notified, queue_notify not yet called
    stop_called            \* history: virtio_stop_pending_notify_thread was called

notifyVars == <<pending_queue_notify, pending_notify, pending_notify_stop,
                worker, callers, unserved, stop_called>>

VARIABLES
    desc_table,   \* the guest's descriptor table of the queue
    call,         \* <<>> or <<the arguments of the engine call made>>
    result        \* <<>> or <<the outcome of that call>>

fnVars == <<desc_table, call, result>>

VARIABLES
    guest,     \* the guest's rings of queue 0 and the request headers it wrote
    blk,       \* VIRTIOBlockDevice: req_in_progress and req
    backend,   \* requests the block backend holds for a later callback
    thr,       \* the threads running the queue engine: locals and position
    dma_rec,   \* history: per thread, the DMA writes and the IRQ of the
               \* completion it is performing, in order
    n_done     \* history: calls of virtio_consume_desc so far

queueVars == <<guest, blk, backend, thr, dma_rec, n_done>>

VARIABLES
    fpga,   \* class FPGA: exit_code, the HTIF switch, the host-stdin queue
            \* and its mutex, and what stop_io, join_io and putchar did
    chan,   \* the dispatcher's side of the virtual-device channel: the
            \* request it served last and the side-band accesses it made
    pump,   \* the console-input thread (process_stdin / enqueue_stdin)
    isr     \* the loads and stores of int_status in flight: the driver's
            \* acknowledge and the device side's interrupt, and the
            \* interrupt causes raised and not yet acknowledged

ioVars == <<fpga, chan, pump, isr>>

vars == <<regVars, notifyVars, fnVars, queueVars, ioVars>>

\* class FPGA after its constructor and the set_htif_enabled call of the
\* start-up code; stops, console, pipe and joined record what stop_io,
\* console_putchar, the write to virtio_stdio_pipe and join_io did
FPGA(htif, has_console, code) ==
    [exit_code |-> code, htif_enabled |-> htif, has_console |-> has_console,
     ctrla_seen |-> 0, irq_state |-> 0,
     stdin_queue |-> <<>>, stdin_mutex |-> "free",
     stops |-> <<>>, console |-> <<>>, pipe |-> <<>>, joined |-> <<>>]

\* the dispatcher before its first request
IdleChan ==
    [served |-> 0, req |-> <<>>, log |-> <<>>, read_data |-> <<>>,
     forwarded |-> <<>>, returned |-> <<>>]

\* the console-input thread in select(), nothing read yet; accepted is the
\* history of the characters enqueue_stdin decided to push
IdlePump == [pc |-> "select", buf |-> <<>>, reads |-> 0, accepted |-> <<>>]

\* no access to int_status in flight, nothing raised
IdleIsr ==
    [ack_pc |-> "idle", val |-> 0, ack_tmp |-> 0,
     dev_pc |-> "idle", dev_bit |-> 0, dev_tmp |-> 0,
     pending |-> {}, raises |-> 0]

IoIdle ==
    /\ fpga = FPGA(FALSE, FALSE, 0)
    /\ chan = IdleChan
    /\ pump = IdlePump
    /\ isr = IdleIsr

NoWrite == [offset |-> 0, val |-> 0]

\* the devices handed to virtio_start_pending_notify_thread (ps[0..n-1]);
\* device 0 is dev
Devs == {0, 1}

Callers == {"c1", "c2"}

IdleWorker == [pc |-> "top", i |-> 0, notify |-> 0, j |-> 0]

IdleCaller == [pc |-> "idle", d |-> 0, q |-> 0]

\* the worker has been started and nothing is pending
NotifyIdle ==
    /\ pending_queue_notify = [d \in Devs |-> 0]
    /\ pending_notify = 0
    /\ pending_notify_stop = 0
    /\ worker = IdleWorker
    /\ callers = [c \in Callers |-> IdleCaller]
    /\ unserved = {}
    /\ stop_called = FALSE

RegIdle ==
    /\ dev = virtio_init("block")
    /\ last_write = NoWrite
    /\ features_accepted = FALSE

\* descriptors of the table the model tracks
MaxDesc == 3

DescIdx == 0 .. (MaxDesc - 1)

ZeroDesc == [addr |-> 0, len |-> W32(0), flags |-> 0, next |-> 0]

FnIdle ==
    /\ desc_table = [i \in DescIdx |-> ZeroDesc]
    /\ call = <<>>
    /\ result = <<>>

\* "W" is the NotifyWorker inside queue_notify; "B" is the backend's thread,
\* which delivers block completions and network packets
Threads == {"W", "B"}

IdleThread ==
    [pc |-> "idle", todo |-> <<>>, ctx |-> "none", q |-> 0, avail_idx |-> 0,
     desc_idx |-> 0, read_size |-> 0, write_size |-> 0,
     used_idx |-> 0, slot |-> 0, tracked |-> FALSE, c_desc |-> 0, c_len |-> 0,
     tmp |-> 0]

NoRequest == [type |-> "none", write_size |-> 0, queue_idx |-> 0, desc_idx |-> 0]

\* the rings start with all three indexes at base
GuestAt(base) ==
    [avail |-> [idx |-> base, ring |-> [i \in 0 .. (MAX_QUEUE_NUM - 1) |-> 0]],
     used |-> [idx |-> base,
               ring |-> [i \in 0 .. (MAX_QUEUE_NUM - 1) |-> [id |-> 0, len |-> 0]]],
     hdr |-> [i \in {} |-> "none"]]

QueueIdle ==
    /\ guest = GuestAt(0)
    /\ blk = [req_in_progress |-> FALSE, req |-> NoRequest]
    /\ backend = 0
    /\ thr = [t \in Threads |-> IdleThread]
    /\ dma_rec = [t \in Threads |-> <<>>]
    /\ n_done = 0

\* one MMIO write of the driver, served by virtio_mmio_write
MmioWrite(offset, val) ==
    /\ UNCHANGED <<ioVars, notifyVars, fnVars, queueVars>>
    /\ dev' = virtio_mmio_write(dev, offset, val)
    /\ last_write' = [offset |-> offset, val |-> val]
    /\ features_accepted' =
          IF offset # VIRTIO_MMIO_STATUS THEN features_accepted
          ELSE IF StatusCommit(dev, val) = 0 THEN FALSE
          ELSE features_accepted \/ (SettingFeaturesOk(dev, val) /\ NegotiationOk(dev))

(***************************************************************************)
(* SpecFeatures: feature negotiation.  The driver writes DeviceFeaturesSel, *)
(* DriverFeaturesSel, DriverFeatures and Status in any order, any number   *)
(* of times, to a device of any kind.                                      *)
(***************************************************************************)
\* values written to DriverFeatures: bit 0 and bit 2 of the selected window
\* (bits 0 and 2 with DriverFeaturesSel = 0, bits 32 and 34 with 1)
FeatureVals == {1, 4}

SelVals == {0, 1, 2}

StatusVals == {0, 1, 3, 8, 11, 15}

FeaturesInit ==
    /\ \E kind \in DeviceKinds : dev = virtio_init(kind)
    /\ last_write = NoWrite
    /\ features_accepted = FALSE
    /\ NotifyIdle
    /\ IoIdle
    /\ FnIdle
    /\ QueueIdle

WriteDeviceFeaturesSel ==
    \E val \in {0, 1} : MmioWrite(VIRTIO_MMIO_DEVICE_FEATURES_SEL, val)

WriteDriverFeaturesSel ==
    \E val \in SelVals : MmioWrite(VIRTIO_MMIO_DRIVER_FEATURES_SEL, val)

WriteDriverFeatures ==
    \E val \in FeatureVals : MmioWrite(VIRTIO_MMIO_DRIVER_FEATURES, val)

WriteStatus ==
    \E val \in StatusVals : MmioWrite(VIRTIO_MMIO_STATUS, val)

FeaturesNext ==
    \/ WriteDeviceFeaturesSel
    \/ WriteDriverFeaturesSel
    \/ WriteDriverFeatures
    \/ WriteStatus

SpecFeatures == FeaturesInit /\ [][FeaturesNext]_vars

HasFeaturesOk(v) == BitAnd(v, VIRTIO_STAT_FEATURES_OK) # 0

\* the step is a Status write whose value has FEATURES_OK set
FeaturesOkWriteStep ==
    /\ last_write'.offset = VIRTIO_MMIO_STATUS
    /\ HasFeaturesOk(last_write'.val)
    /\ WriteStatus

\* C1 as stated: every Status write whose value has FEATURES_OK set leaves
\* FEATURES_OK set in status if and only if driver_features is a subset of
\* device_features and contains VIRTIO_F_VERSION_1.
C1_GateOnEveryWrite ==
    [][FeaturesOkWriteStep => (HasFeaturesOk(dev'.status) <=> NegotiationOk(dev))]_vars

\* C1 amended: a Status write whose value has FEATURES_OK set, made while
\* status has FEATURES_OK clear, leaves FEATURES_OK set if and only if
\* driver_features is a subset of device_features and contains
\* VIRTIO_F_VERSION_1; made while status already has FEATURES_OK set, it
\* keeps the bit set without checking again.
C1_GateOnSettingWrite ==
    [][FeaturesOkWriteStep =>
         IF HasFeaturesOk(dev.status)
         THEN HasFeaturesOk(dev'.status)
         ELSE (HasFeaturesOk(dev'.status) <=> NegotiationOk(dev))]_vars

\* a Status write with FEATURES_OK has been refused: the driver asked for a
\* feature the device does not offer, or left VERSION_1 out
C1_Witness ==
    /\ last_write.offset = VIRTIO_MMIO_STATUS
    /\ HasFeaturesOk(last_write.val)
    /\ ~HasFeaturesOk(dev.status)
    /\ dev.status # 0
    /\ dev.driver_features # {}

ChainLens == {W32(1), <<32768, 0>>}

ChainDescs == [addr : {0}, len : ChainLens, flags : 0 .. 3, next : DescIdx]

ChainInit ==
    /\ desc_table \in [DescIdx -> ChainDescs]
    /\ call = <<>>
    /\ result = <<>>
    /\ RegIdle
    /\ NotifyIdle
    /\ IoIdle
    /\ QueueIdle

CallGetDescRwSize ==
    /\ call = <<>>
    /\ \E desc_idx \in DescIdx :
          /\ call' = <<[fn |-> "get_desc_rw_size", desc_idx |-> desc_idx]>>
          /\ result' = <<get_desc_rw_size(desc_table, desc_idx)>>
    /\ UNCHANGED <<ioVars, regVars, notifyVars, queueVars, desc_table>>

ChainNext == CallGetDescRwSize

SpecChain == ChainInit /\ [][ChainNext]_vars

\* the descriptors the NEXT links visit from desc_idx, in order, each once;
\* again is <<>> or <<the descriptor the links come back to>>
RECURSIVE ChainPath(_, _, _)
ChainPath(table, desc_idx, path) ==
    IF \E i \in 1 .. Len(path) : path[i] = desc_idx
    THEN [path |-> path, again |-> <<desc_idx>>]
    ELSE IF ~HasFlag(table[desc_idx], VRING_DESC_F_NEXT)
    THEN [path |-> Append(path, desc_idx), again |-> <<>>]
    ELSE ChainPath(table, table[desc_idx].next, Append(path, desc_idx))

IsWritable(table, i) == HasFlag(table[i], VRING_DESC_F_WRITE)

\* a run of readable descriptors followed by a run of writable ones
IsSplit(table, path) ==
    \A i, j \in 1 .. Len(path) :
        (i < j /\ IsWritable(table, path[i])) => IsWritable(table, path[j])

\* the exact sum of len over the descriptors of path that are writable (or
\* readable), as <<multiple of 2^16, rest>>
RECURSIVE SumLen(_, _, _)
SumLen(table, path, writable) ==
    IF path = <<>> THEN <<0, 0>>
    ELSE LET rest == SumLen(table, Tail(path), writable)
             d == table[Head(path)]
             lo == rest[2] + d.len[2]
         IN  IF IsWritable(table, Head(path)) # writable THEN rest
             ELSE <<rest[1] + d.len[1] + (lo \div U16), lo % U16>>

\* C8 (as stated): get_desc_rw_size returns success exactly when the chain is
\* a run of readable descriptors followed by a run of writable ones, then
\* read_size and write_size are the sums of len over the two runs, and a
\* chain with a readable descriptor after a writable one returns an error.
C8_ChainSplitSums ==
    (result # <<>>) =>
        LET r == result[1]
            c == ChainPath(desc_table, call[1].desc_idx, <<>>)
            walk == c.path \o c.again
            success == r.returns /\ r.ret = 0
        IN  /\ success <=> (c.again = <<>> /\ IsSplit(desc_table, c.path))
            /\ success =>
                  /\ ~IsNegative(r.read_size)
                  /\ r.read_size = SumLen(desc_table, c.path, FALSE)
                  /\ ~IsNegative(r.write_size)
                  /\ r.write_size = SumLen(desc_table, c.path, TRUE)
            /\ ~IsSplit(desc_table, walk) => (r.returns /\ r.ret = -1)

\* the part of C8 that does not depend on the width of the sums
C8_SplitOnly ==
    (result # <<>>) =>
        LET r == result[1]
            c == ChainPath(desc_table, call[1].desc_idx, <<>>)
            success == r.returns /\ r.ret = 0
        IN  /\ success <=> (c.again = <<>> /\ IsSplit(desc_table, c.path))
            /\ ~IsSplit(desc_table, c.path \o c.again) => (r.returns /\ r.ret = -1)
            /\ (success /\ ~IsNegative(r.read_size) /\ ~IsNegative(r.write_size)
                /\ SumLen(desc_table, c.path, FALSE)[1] < 32768
                /\ SumLen(desc_table, c.path, TRUE)[1] < 32768) =>
                  /\ r.read_size = SumLen(desc_table, c.path, FALSE)
                  /\ r.write_size = SumLen(desc_table, c.path, TRUE)

(***************************************************************************)
(* SpecCopy: memcpy_to_from_queue in both directions on every table of     *)
(* MaxDesc descriptors linked in a ring (the NEXT flag ends the chain),    *)
(* descriptor i at guest address 4 * i, lengths 0, 1, 2 or 0xFFFFFFFF.     *)
(***************************************************************************)
CopyLens == {W32(0), W32(1), W32(2), <<65535, 65535>>}

\* largest offset and count passed
MaxOffset == 2

MaxCount == 3

CopyInit ==
    /\ \E f \in [DescIdx -> CopyLens \X (0 .. 3)] :
          desc_table = [i \in DescIdx |->
                           [addr |-> 4 * i, len |-> f[i][1], flags |-> f[i][2],
                            next |-> (i + 1) % MaxDesc]]
    /\ call = <<>>
    /\ result = <<>>
    /\ RegIdle
    /\ NotifyIdle
    /\ IoIdle
    /\ QueueIdle

\* what the build can produce once a negative length has been passed on
UndefinedOutcomes(r) ==
    {[r EXCEPT !.returns = b, !.ret = v] : b \in BOOLEAN, v \in {0, -1}}

CallMemcpy ==
    /\ call = <<>>
    /\ \E desc_idx \in DescIdx, offset \in 0 .. MaxOffset, count \in 1 .. MaxCount,
          to_queue \in BOOLEAN :
          LET r == memcpy_to_from_queue(desc_table, desc_idx, offset, count, to_queue)
          IN  /\ call' = <<[fn |-> "memcpy_to_from_queue", desc_idx |-> desc_idx,
                            offset |-> offset, count |-> count,
                            to_queue |-> to_queue]>>
              /\ IF r.undefined
                 THEN \E u \in UndefinedOutcomes(r) : result' = <<u>>
                 ELSE result' = <<r>>
    /\ UNCHANGED <<ioVars, regVars, notifyVars, queueVars, desc_table>>

CopyNext == CallMemcpy

SpecCopy == CopyInit /\ [][CopyNext]_vars

\* the guest address of byte n of the concatenation of the descriptors of
\* path whose WRITE flag is `writable`; -1 when they hold n bytes or fewer
RECURSIVE LinearAddr(_, _, _, _)
LinearAddr(table, path, writable, n) ==
    IF path = <<>> THEN -1
    ELSE LET d == table[Head(path)]
         IN  IF IsWritable(table, Head(path)) # writable
             THEN LinearAddr(table, Tail(path), writable, n)
             ELSE IF Less32(W32(n), d.len) THEN d.addr + n
             ELSE LinearAddr(table, Tail(path), writable, n - IntOf(d.len))

\* C9 (as stated): memcpy_to_from_queue with count > 0 returns 0 exactly when
\* the concatenated writable (to_queue) or readable (from queue) descriptors
\* of the chain hold at least offset + count bytes, and then byte i of buf
\* is moved to or from linear position offset + i of that region, for every
\* i < count, and no other guest byte is touched.
C9_ScatterGatherTotal ==
    (result # <<>>) =>
        LET r == result[1]
            a == call[1]
            path == ChainPath(desc_table, a.desc_idx, <<>>).path
            at(n) == LinearAddr(desc_table, path, a.to_queue, n)
        IN  /\ r.returns
            /\ r.ret = 0 <=> at(a.offset + a.count - 1) # -1
            /\ r.ret = 0 =>
                  r.copies = [i \in 1 .. a.count |-> <<at(a.offset + i - 1), i - 1>>]

\* C9 restricted to chains that get_desc_rw_size accepts and whose
\* descriptors are shorter than 2^31 bytes
C9_WellFormedChains ==
    (result # <<>>) =>
        LET r == result[1]
            a == call[1]
            c == ChainPath(desc_table, a.desc_idx, <<>>)
            at(n) == LinearAddr(desc_table, c.path, a.to_queue, n)
        IN  (/\ c.again = <<>>
             /\ IsSplit(desc_table, c.path)
             /\ \A i \in 1 .. Len(c.path) : ~IsNegative(desc_table[c.path[i]].len)) =>
                /\ r.returns
                /\ ~r.undefined
                /\ r.ret = 0 <=> at(a.offset + a.count - 1) # -1
                /\ r.ret = 0 =>
                      r.copies = [i \in 1 .. a.count |-> <<at(a.offset + i - 1), i - 1>>]

(***************************************************************************)
(* SpecNotify: async_queue_notify against pending_notify_worker.  Two      *)
(* threads call async_queue_notify for any device and queue and the worker *)
(* runs its loop.  SpecNotifyStop adds one call of                         *)
(* virtio_stop_pending_notify_thread.                                      *)
(* Each of the worker's steps is one critical section or one atomic        *)
(* operation of the code.  The guest's descriptor table holds one chain,   *)
(* which is either a single descriptor or a cycle of NEXT links; the       *)
(* worker's queue_notify walks it with get_desc_rw_size.                   *)
(***************************************************************************)
NotifyQueues == {0, 1}

SingleDesc == [ZeroDesc EXCEPT !.len = W32(1)]

NotifyTables ==
    {[i \in DescIdx |-> SingleDesc],
     [i \in DescIdx |-> [SingleDesc EXCEPT !.flags = VRING_DESC_F_NEXT, !.next = i]]}

NotifyInit ==
    /\ RegIdle
    /\ NotifyIdle
    /\ IoIdle
    /\ desc_table \in NotifyTables
    /\ call = <<>>
    /\ result = <<>>
    /\ QueueIdle

\* the value async_queue_notify stores in pending_notify under the lock
async_queue_notify_flag(flag) == 1

\* pthread_cond_signal: a worker blocked in pthread_cond_wait runs again
cond_signal(w) == IF w.pc = "waiting" THEN [w EXCEPT !.pc = "top"] ELSE w

\* async_queue_notify, first statement: the atomic fetch_or
CallerFetchOr(c) ==
    /\ callers[c].pc = "idle"
    /\ \E d \in Devs, q \in NotifyQueues :
          /\ pending_queue_notify' =
                [pending_queue_notify EXCEPT ![d] = BitOr(@, 2 ^ q)]
          /\ unserved' = unserved \cup {<<d, q>>}
          /\ callers' = [callers EXCEPT ![c] = [pc |-> "signal", d |-> d, q |-> q]]
    /\ UNCHANGED <<pending_notify, pending_notify_stop, worker, stop_called>>
    /\ UNCHANGED <<ioVars, regVars, fnVars, queueVars>>

\* async_queue_notify, the critical section: set the flag and signal
CallerSignal(c) ==
    /\ callers[c].pc = "signal"
    /\ pending_notify' = async_queue_notify_flag(pending_notify)
    /\ worker' = cond_signal(worker)
    /\ callers' = [callers EXCEPT ![c] = IdleCaller]
    /\ UNCHANGED <<pending_queue_notify, pending_notify_stop, unserved, stop_called>>
    /\ UNCHANGED <<ioVars, regVars, fnVars, queueVars>>

\* virtio_stop_pending_notify_thread
StopWorker ==
    /\ ~stop_called
    /\ pending_notify' = 1
    /\ pending_notify_stop' = 1
    /\ worker' = cond_signal(worker)
    /\ stop_called' = TRUE
    /\ UNCHANGED <<pending_queue_notify, callers, unserved>>
    /\ UNCHANGED <<ioVars, regVars, fnVars, queueVars>>

\* the worker's critical section: wait for the flag, leave on stop, else
\* clear the flag and start the scan of the devices
WorkerCheck ==
    /\ worker.pc = "top"
    /\ IF pending_notify = 0
       THEN /\ worker' = [worker EXCEPT !.pc = "waiting"]
            /\ UNCHANGED <<pending_notify, pending_notify_stop>>
       ELSE IF pending_notify_stop # 0
       THEN /\ pending_notify_stop' = 0
            /\ worker' = [worker EXCEPT !.pc = "exited"]
            /\ UNCHANGED pending_notify
       ELSE /\ pending_notify' = 0
            /\ worker' = [worker EXCEPT !.pc = "scan", !.i = 0]
            /\ UNCHANGED pending_notify_stop
    /\ UNCHANGED <<pending_queue_notify, callers, unserved, stop_called>>
    /\ UNCHANGED <<ioVars, regVars, fnVars, queueVars>>

\* for (i = 0; i < n; i++) notify = atomic_exchange(&s->pending_queue_notify, 0)
WorkerExchange ==
    /\ worker.pc = "scan"
    /\ IF worker.i \in Devs
       THEN /\ worker' = [worker EXCEPT !.pc = "bits", !.j = 0,
                                        !.notify = pending_queue_notify[worker.i]]
            /\ pending_queue_notify' = [pending_queue_notify EXCEPT ![worker.i] = 0]
       ELSE /\ worker' = [worker EXCEPT !.pc = "top", !.i = 0]
            /\ UNCHANGED pending_queue_notify
    /\ UNCHANGED <<pending_notify, pending_notify_stop, callers, unserved, stop_called>>
    /\ UNCHANGED <<ioVars, regVars, fnVars, queueVars>>

\* bit j of the worker's notify word is set
NotifyBit(w) == BitAnd(w.notify, 2 ^ w.j) # 0

\* for (j = 0; j < 32 && notify; j++): a clear bit, or the end of the loop
WorkerSkip ==
    /\ worker.pc = "bits"
    /\ ~(worker.j < 32 /\ worker.notify # 0 /\ NotifyBit(worker))
    /\ IF worker.j < 32 /\ worker.notify # 0
       THEN worker' = [worker EXCEPT !.j = @ + 1]
       ELSE worker' = [worker EXCEPT !.pc = "scan", !.i = @ + 1, !.j = 0]
    /\ UNCHANGED <<pending_queue_notify, pending_notify, pending_notify_stop,
                   callers, unserved, stop_called>>
    /\ UNCHANGED <<ioVars, regVars, fnVars, queueVars>>

\* a set bit: queue_notify(s, j) is called; it returns when its chain walk
\* does, and then the bit is cleared in notify
WorkerQueueNotify ==
    /\ worker.pc = "bits"
    /\ worker.j < 32 /\ worker.notify # 0 /\ NotifyBit(worker)
    /\ unserved' = unserved \ {<<worker.i, worker.j>>}
    /\ IF get_desc_rw_size(desc_table, 0).returns
       THEN worker' = [worker EXCEPT !.notify = BitAndNot(@, 2 ^ worker.j),
                                     !.j = @ + 1]
       ELSE worker' = [worker EXCEPT !.pc = "in_queue_notify"]
    /\ UNCHANGED <<pending_queue_notify, pending_notify, pending_notify_stop,
                   callers, stop_called>>
    /\ UNCHANGED <<ioVars, regVars, fnVars, queueVars>>

WorkerStep == WorkerCheck \/ WorkerExchange \/ WorkerSkip \/ WorkerQueueNotify

NotifyNext ==
    \/ \E c \in Callers : CallerFetchOr(c)
    \/ \E c \in Callers : CallerSignal(c)
    \/ WorkerCheck
    \/ WorkerExchange
    \/ WorkerSkip
    \/ WorkerQueueNotify

\* the worker thread is scheduled, and a caller that has set its bit goes
\* on to take the lock
SpecNotify ==
    /\ NotifyInit
    /\ [][NotifyNext]_vars
    /\ WF_vars(WorkerStep)
    /\ \A c \in Callers : WF_vars(CallerSignal(c))

SpecNotifyStop ==
    /\ NotifyInit
    /\ [][NotifyNext \/ StopWorker]_vars
    /\ WF_vars(WorkerStep)
    /\ \A c \in Callers : WF_vars(CallerSignal(c))

\* C3 (as stated): after every async_queue_notify(s, q) the worker eventually
\* calls queue_notify(s, q).
C3_EveryNotifyServed ==
    \A d \in Devs, q \in NotifyQueues :
        (<<d, q>> \in unserved) ~> (<<d, q>> \notin unserved)

\* what the worker does guarantee, under SpecNotifyStop as well: a
\* notification is served unless the stop was requested or the worker is
\* inside a queue_notify that never returns
C3_ServedWhileRunning ==
    \A d \in Devs, q \in NotifyQueues :
        (<<d, q>> \in unserved) ~>
            (<<d, q>> \notin unserved \/ stop_called \/ worker.pc = "in_queue_notify")

(***************************************************************************)
(* The queue engine, one step per access to memory that another thread or  *)
(* the guest can see.  The driver has set the block device up; the guest   *)
(* publishes request chains on queue 0 and notifies; the NotifyWorker      *)
(* drains the queue; the block backend answers a request at once or holds  *)
(* it and calls virtio_block_req_cb later on its own thread.               *)
(***************************************************************************)
\* chains the guest publishes
MaxChains == 2

\* calls of virtio_consume_desc the model follows
MaxCompletions == 3

\* ring entries past avail.idx the model follows once last_avail_idx has
\* run past the guest's index
MaxOverrun == 1

\* how far last_avail_idx is past the guest's avail.idx, modulo 2^16; the
\* values just below 2^16 are an index still behind avail.idx
Overrun(last_avail_idx) == (last_avail_idx - guest.avail.idx) % U16

FollowsIndex(last_avail_idx) ==
    \/ Overrun(last_avail_idx) <= MaxOverrun
    \/ Overrun(last_avail_idx) >= U16 - MaxChains

\* what the driver programs for queue 0: ring size and guest addresses
RingSetup == [num |-> 2, desc |-> 4096, avail |-> 8192, used |-> 12288]

RECURSIVE ApplyWrites(_, _)
ApplyWrites(s, writes) ==
    IF writes = <<>> THEN s
    ELSE ApplyWrites(virtio_mmio_write(s, writes[1][1], writes[1][2]), Tail(writes))

\* the initialisation sequence of a VirtIO 1.0 driver
DriverSetup ==
    << <<VIRTIO_MMIO_STATUS, VIRTIO_STAT_ACKNOWLEDGE>>,
       <<VIRTIO_MMIO_STATUS, 3>>,
       <<VIRTIO_MMIO_DRIVER_FEATURES_SEL, 1>>,
       <<VIRTIO_MMIO_DRIVER_FEATURES, 1>>,
       <<VIRTIO_MMIO_STATUS, 11>>,
       <<VIRTIO_MMIO_QUEUE_SEL, 0>>,
       <<VIRTIO_MMIO_QUEUE_NUM, RingSetup.num>>,
       <<VIRTIO_MMIO_QUEUE_DESC_LOW, RingSetup.desc>>,
       <<VIRTIO_MMIO_QUEUE_AVAIL_LOW, RingSetup.avail>>,
       <<VIRTIO_MMIO_QUEUE_USED_LOW, RingSetup.used>>,
       <<VIRTIO_MMIO_QUEUE_READY, 1>>,
       <<VIRTIO_MMIO_STATUS, 15>> >>

ChainIdx == 0 .. (2 * MaxChains - 1)

\* guest memory the model tracks lies at the addresses of RingSetup; the
\* rest of guest memory reads as zero and writes to it are not recorded
AvailTracked(s, q) == s.queue[q].avail_addr = <<0, RingSetup.avail>>

UsedTracked(s, q) == s.queue[q].used_addr = <<0, RingSetup.used>>

\* virtio_read16(s, qs->avail_addr + 2)
AvailIdxAt(s, q) == IF AvailTracked(s, q) THEN guest.avail.idx ELSE 0

\* virtio_read16(s, qs->avail_addr + 4 + slot * 2)
AvailRingAt(s, q, slot) ==
    IF AvailTracked(s, q) /\ slot \in DOMAIN guest.avail.ring
    THEN guest.avail.ring[slot] ELSE 0

\* virtio_read16(s, qs->used_addr + 2)
UsedIdxAt(s, q) == IF UsedTracked(s, q) THEN guest.used.idx ELSE 0

DescTableAt(s, q) ==
    IF s.queue[q].desc_addr = <<0, RingSetup.desc>> THEN desc_table
    ELSE [i \in DOMAIN desc_table |-> ZeroDesc]

\* the type field of the header the chain's first descriptor points to
\* (memory the guest has not written holds no supported type)
HeaderTypeAt(desc_idx) ==
    IF desc_idx \in DOMAIN guest.hdr THEN guest.hdr[desc_idx] ELSE "OTHER"

\* the kinds of chain the guest publishes: block requests by the type in
\* their header and a chain that get_desc_rw_size rejects; receive buffers
\* of the network device, large enough for a packet or not
PublishedKinds(kind) ==
    IF kind = "block" THEN {"IN", "FLUSH", "OTHER", "BAD"}
    ELSE {"RXBUF", "RXSMALL"}

\* sizeof(VIRTIONetHeader), and the length of the packet the network
\* backend delivers
NetSizes == [header_size |-> 12, buf_len |-> 60]

\* the two descriptors of a chain of the given kind, at head and head + 1
ChainDescsOf(kind, head) ==
    LET d(len, flags) == [addr |-> 0, len |-> W32(len), flags |-> flags,
                          next |-> head + 1]
    IN  CASE kind = "IN" ->
               <<d(16, VRING_DESC_F_NEXT), d(513, VRING_DESC_F_WRITE)>>
          [] kind = "OUT" ->
               <<d(528, VRING_DESC_F_NEXT), d(1, VRING_DESC_F_WRITE)>>
          [] kind = "BAD" ->
               <<d(1, VRING_DESC_F_WRITE + VRING_DESC_F_NEXT), d(16, 0)>>
          [] kind = "RXBUF" ->
               <<d(12, VRING_DESC_F_WRITE + VRING_DESC_F_NEXT),
                 d(1514, VRING_DESC_F_WRITE)>>
          [] kind = "RXSMALL" ->
               <<d(12, VRING_DESC_F_WRITE + VRING_DESC_F_NEXT),
                 d(16, VRING_DESC_F_WRITE)>>
          [] OTHER ->
               <<d(16, VRING_DESC_F_NEXT), d(1, VRING_DESC_F_WRITE)>>

\* the steps of virtio_consume_desc: read used.idx, store the element's id
\* and len, store used.idx + 1, raise the interrupt
virtio_consume_desc_irq_first == <<"cd_read", "cd_id", "cd_len", "cd_irq", "cd_idx">>

virtio_consume_desc_steps == <<"cd_read", "cd_id", "cd_len", "cd_idx", "cd_irq">>

\* the steps of virtio_block_req_end: memcpy_to_queue, virtio_consume_desc
virtio_block_req_end_consume_first == virtio_consume_desc_steps \o <<"re_copy">>

virtio_block_req_end_steps == <<"re_copy">> \o virtio_consume_desc_steps

\* start the steps of seq in thread record r
Begin(r, seq) == [r EXCEPT !.pc = Head(seq), !.todo = Tail(seq)]

\* the step after the current one
Advance(r) == [r EXCEPT !.pc = Head(r.todo), !.todo = Tail(r.todo)]

\* abort() ends the process
Alive == \A t \in Threads : thr[t].pc # "abort"

\* the device after the driver's setup and after `base` requests have been
\* served (base = 65535 puts the 16-bit indexes one step before they wrap)
QueueInit(kind) ==
    /\ \E base \in {0, U16 - 1} :
          /\ dev = [ApplyWrites(virtio_init(kind), DriverSetup) EXCEPT
                       !.queue[0].last_avail_idx = base,
                       !.queue[0].avail_idx = base]
          /\ guest = GuestAt(base)
    /\ last_write = NoWrite
    /\ features_accepted = TRUE
    /\ NotifyIdle
    /\ IoIdle
    /\ desc_table = [i \in ChainIdx |-> ZeroDesc]
    /\ call = <<>>
    /\ result = <<>>
    /\ blk = [req_in_progress |-> FALSE, req |-> NoRequest]
    /\ backend = 0
    /\ thr = [t \in Threads |-> IdleThread]
    /\ dma_rec = [t \in Threads |-> <<>>]
    /\ n_done = 0

\* the guest writes a chain and its header, puts the head in the available
\* ring and then advances avail.idx
GuestPublish ==
    /\ Alive
    /\ Cardinality(DOMAIN guest.hdr) < MaxChains
    /\ \E kind \in PublishedKinds(dev.kind) :
          LET head == 2 * Cardinality(DOMAIN guest.hdr)
              descs == ChainDescsOf(kind, head)
              slot == guest.avail.idx % RingSetup.num
          IN  /\ desc_table' = [desc_table EXCEPT ![head] = descs[1],
                                                  ![head + 1] = descs[2]]
              /\ guest' = [guest EXCEPT
                              !.hdr = (head :> kind) @@ @,
                              !.avail.ring[slot] = head,
                              !.avail.idx = (@ + 1) % U16]
    /\ UNCHANGED <<ioVars, regVars, notifyVars, call, result, blk, backend, thr, dma_rec, n_done>>

\* a write of val to QueueNotify: virtio_mmio_write calls async_queue_notify
WriteQueueNotify ==
    /\ Alive
    /\ \E val \in {0} :
          /\ val < MAX_QUEUE
          /\ pending_queue_notify' = [pending_queue_notify EXCEPT ![0] = BitOr(@, 2 ^ val)]
          /\ last_write' = [offset |-> VIRTIO_MMIO_QUEUE_NOTIFY, val |-> val]
    /\ pending_notify' = async_queue_notify_flag(pending_notify)
    /\ worker' = cond_signal(worker)
    /\ UNCHANGED <<ioVars, dev, features_accepted, pending_notify_stop, callers, unserved,
                   stop_called, fnVars, queueVars>>

WriteInterruptAck ==
    /\ Alive
    /\ dev.int_status # 0
    /\ MmioWrite(VIRTIO_MMIO_INTERRUPT_ACK, 1)

\* the lowest set bit of a non-zero word
RECURSIVE LowestBit(_)
LowestBit(v) == IF v % 2 = 1 THEN 0 ELSE 1 + LowestBit(v \div 2)

\* the worker wakes up, clears pending_notify, takes the bits of device 0
\* with the atomic exchange and calls queue_notify for the first of them
\* (SpecNotify has these steps one by one)
WorkerServe ==
    /\ Alive
    /\ worker.pc = "top"
    /\ pending_notify # 0 /\ pending_notify_stop = 0
    /\ pending_queue_notify[0] # 0
    /\ pending_notify' = 0
    /\ pending_queue_notify' = [pending_queue_notify EXCEPT ![0] = 0]
    /\ worker' = [pc |-> "in_queue_notify", i |-> 0,
                  notify |-> pending_queue_notify[0],
                  j |-> LowestBit(pending_queue_notify[0])]
    /\ thr' = [thr EXCEPT !["W"] = [IdleThread EXCEPT
                                       !.pc = "qn_start",
                                       !.q = LowestBit(pending_queue_notify[0])]]
    /\ UNCHANGED <<pending_notify_stop, callers, unserved, stop_called>>
    /\ UNCHANGED <<ioVars, regVars, fnVars, guest, blk, backend, dma_rec, n_done>>

\* queue_notify: read avail.idx, cache it, return on a manual_recv queue
QueueNotifyStart(t) ==
    /\ Alive
    /\ thr[t].pc = "qn_start"
    /\ LET q == thr[t].q
           avail_idx == AvailIdxAt(dev, q)
       IN  /\ dev' = [dev EXCEPT !.queue[q].avail_idx = avail_idx]
           /\ thr' = [thr EXCEPT ![t].avail_idx = avail_idx,
                                 ![t].pc = IF dev.queue[q].manual_recv
                                           THEN "qn_ret" ELSE "qn_loop"]
    /\ UNCHANGED <<ioVars, last_write, features_accepted, notifyVars, fnVars, guest, blk,
                   backend, dma_rec, n_done>>

\* the head of the while loop: leave when last_avail_idx has reached
\* avail_idx, else read the head from the ring and size the chain
QueueNotifyFetch(t) ==
    /\ Alive
    /\ thr[t].pc = "qn_loop"
    /\ FollowsIndex(dev.queue[thr[t].q].last_avail_idx)
    /\ LET q == thr[t].q
           qs == dev.queue[q]
           desc_idx == AvailRingAt(dev, q, BitAnd(qs.last_avail_idx, qs.num - 1))
           size == get_desc_rw_size(DescTableAt(dev, q), desc_idx)
       IN  IF qs.last_avail_idx = thr[t].avail_idx
           THEN thr' = [thr EXCEPT ![t].pc = "qn_ret"]
           ELSE IF ~size.returns
           THEN thr' = [thr EXCEPT ![t].pc = "qn_walk", ![t].desc_idx = desc_idx]
           ELSE IF size.ret # 0
           THEN thr' = [thr EXCEPT ![t].pc = "qn_inc", ![t].desc_idx = desc_idx]
           ELSE thr' = [thr EXCEPT ![t].pc = "recv", ![t].desc_idx = desc_idx,
                                   ![t].read_size = IntOf(size.read_size),
                                   ![t].write_size = IntOf(size.write_size)]
    /\ UNCHANGED <<ioVars, regVars, notifyVars, fnVars, guest, blk, backend, dma_rec, n_done>>

\* qs->last_avail_idx++ : the load
QueueNotifyIncLoad(t) ==
    /\ Alive
    /\ thr[t].pc = "qn_inc"
    /\ thr' = [thr EXCEPT ![t].tmp = dev.queue[thr[t].q].last_avail_idx,
                          ![t].pc = "qn_inc_store"]
    /\ UNCHANGED <<ioVars, regVars, notifyVars, fnVars, guest, blk, backend, dma_rec, n_done>>

\* qs->last_avail_idx++ : the store
QueueNotifyIncStore(t) ==
    /\ Alive
    /\ thr[t].pc = "qn_inc_store"
    /\ dev' = [dev EXCEPT !.queue[thr[t].q].last_avail_idx = (thr[t].tmp + 1) % U16]
    /\ thr' = [thr EXCEPT ![t] =
                  [IdleThread EXCEPT !.q = thr[t].q, !.avail_idx = thr[t].avail_idx,
                                     !.pc = IF thr[t].todo = <<>> THEN "qn_loop"
                                            ELSE Head(thr[t].todo),
                                     !.todo = IF thr[t].todo = <<>> THEN <<>>
                                              ELSE Tail(thr[t].todo)]]
    /\ dma_rec' = [dma_rec EXCEPT ![t] = <<>>]
    /\ UNCHANGED <<ioVars, last_write, features_accepted, notifyVars, fnVars, guest, blk,
                   backend, n_done>>

\* queue_notify returns: the worker clears the bit in notify and goes on,
\* the backend's thread is done
QueueNotifyReturn(t) ==
    /\ Alive
    /\ thr[t].pc = "qn_ret"
    /\ LET left == BitAndNot(worker.notify, 2 ^ worker.j)
       IN  IF t # "W"
           THEN /\ thr' = [thr EXCEPT ![t] = IdleThread]
                /\ UNCHANGED worker
           ELSE IF left = 0
           THEN /\ thr' = [thr EXCEPT ![t] = IdleThread]
                /\ worker' = IdleWorker
           ELSE /\ thr' = [thr EXCEPT ![t] = [IdleThread EXCEPT !.pc = "qn_start",
                                                               !.q = LowestBit(left)]]
                /\ worker' = [worker EXCEPT !.notify = left, !.j = LowestBit(left)]
    /\ UNCHANGED <<pending_queue_notify, pending_notify, pending_notify_stop,
                   callers, unserved, stop_called>>
    /\ UNCHANGED <<ioVars, regVars, fnVars, guest, blk, backend, dma_rec, n_done>>

\* virtio_block_req_end is entered: it reads s1->req and, for a type it
\* does not complete, calls abort(); `after` is where its caller goes on
EnterReqEnd(r, req, ret, after) ==
    IF req.type \notin {"IN", "OUT", "FLUSH"}
    THEN [r EXCEPT !.pc = "abort"]
    ELSE [Begin(r, virtio_block_req_end_steps \o after) EXCEPT
             !.q = req.queue_idx,
             !.c_desc = req.desc_idx,
             !.c_len = IF req.type = "OUT" THEN 1 ELSE req.write_size]

\* what read_async and write_async return: > 0 when the request is held and
\* the callback comes later, else the result of the finished request
BackendReturns == {1, 0, -1}

\* virtio_block_recv_request up to the call of the backend
BlockRecv(t) ==
    /\ Alive
    /\ dev.kind = "block"
    /\ thr[t].pc = "recv"
    /\ LET r == thr[t]
           header == memcpy_from_queue(DescTableAt(dev, r.q), r.desc_idx, 0, 16)
           type == HeaderTypeAt(r.desc_idx)
           req == [type |-> type, queue_idx |-> r.q, desc_idx |-> r.desc_idx,
                   write_size |-> IF type \in {"IN", "FLUSH"} THEN r.write_size
                                  ELSE blk.req.write_size]
       IN  IF blk.req_in_progress
           THEN /\ thr' = [thr EXCEPT ![t].pc = "qn_ret"]
                /\ UNCHANGED <<blk, backend, dma_rec>>
           ELSE IF header.ret < 0
           THEN /\ thr' = [thr EXCEPT ![t].pc = "qn_inc"]
                /\ UNCHANGED <<blk, backend, dma_rec>>
           ELSE /\ blk' = [blk EXCEPT !.req = req]
                /\ dma_rec' = [dma_rec EXCEPT ![t] = <<>>]
                /\ IF type \in {"IN", "OUT"}
                   THEN \E ret \in BackendReturns :
                           IF ret > 0
                           THEN /\ backend' = backend + 1
                                /\ thr' = [thr EXCEPT ![t].pc = "set_in_progress"]
                           ELSE /\ thr' = [thr EXCEPT ![t] =
                                              EnterReqEnd(r, req, ret, <<"qn_inc">>)]
                                /\ UNCHANGED backend
                   ELSE IF type = "FLUSH"
                   THEN /\ thr' = [thr EXCEPT ![t] = EnterReqEnd(r, req, 0, <<"qn_inc">>)]
                        /\ UNCHANGED backend
                   ELSE /\ thr' = [thr EXCEPT ![t] =
                                      [Begin(r, <<"unsupp_copy">> \o virtio_consume_desc_steps
                                                \o <<"qn_inc">>)
                                       EXCEPT !.c_desc = r.desc_idx, !.c_len = 1]]
                        /\ UNCHANGED backend
    /\ UNCHANGED <<ioVars, regVars, notifyVars, fnVars, guest, n_done>>

\* s1->req_in_progress = TRUE, after the backend has taken the request
BlockSetInProgress(t) ==
    /\ Alive
    /\ thr[t].pc = "set_in_progress"
    /\ blk' = [blk EXCEPT !.req_in_progress = TRUE]
    /\ thr' = [thr EXCEPT ![t].pc = "qn_inc"]
    /\ UNCHANGED <<ioVars, regVars, notifyVars, fnVars, guest, backend, dma_rec, n_done>>

\* memcpy_to_queue of the reply: the data and the status byte in
\* virtio_block_req_end, the status byte of an unsupported request
CopyReply(t) ==
    /\ Alive
    /\ thr[t].pc \in {"re_copy", "unsupp_copy"}
    /\ LET r == thr[t]
           reply == memcpy_to_queue(DescTableAt(dev, r.q), r.c_desc, 0, r.c_len)
       IN  dma_rec' = [dma_rec EXCEPT ![t] =
                          IF reply.copies = <<>> THEN @ ELSE Append(@, "payload")]
    /\ thr' = [thr EXCEPT ![t] = Advance(@)]
    /\ UNCHANGED <<ioVars, regVars, notifyVars, fnVars, guest, blk, backend, n_done>>

\* virtio_consume_desc: used_idx = virtio_read16(s, used_idx_addr)
ConsumeReadIdx(t) ==
    /\ Alive
    /\ thr[t].pc = "cd_read"
    /\ n_done < MaxCompletions
    /\ n_done' = n_done + 1
    /\ LET q == thr[t].q
           used_idx == UsedIdxAt(dev, q)
       IN  thr' = [thr EXCEPT ![t] =
                      [Advance(@) EXCEPT !.used_idx = used_idx,
                                         !.slot = BitAnd(used_idx, dev.queue[q].num - 1),
                                         !.tracked = UsedTracked(dev, q)]]
    /\ UNCHANGED <<ioVars, regVars, notifyVars, fnVars, guest, blk, backend, dma_rec>>

\* the used element's fields are in tracked memory
ElemTracked(r) == r.tracked /\ r.slot \in DOMAIN guest.used.ring

\* virtio_write32(s, used_elem_addr, desc_idx)
ConsumeWriteId(t) ==
    /\ Alive
    /\ thr[t].pc = "cd_id"
    /\ guest' = IF ElemTracked(thr[t])
                THEN [guest EXCEPT !.used.ring[thr[t].slot].id = thr[t].c_desc]
                ELSE guest
    /\ dma_rec' = [dma_rec EXCEPT ![t] = Append(@, "elem_id")]
    /\ thr' = [thr EXCEPT ![t] = Advance(@)]
    /\ UNCHANGED <<ioVars, regVars, notifyVars, fnVars, blk, backend, n_done>>

\* virtio_write32(s, used_elem_addr + 4, desc_len)
ConsumeWriteLen(t) ==
    /\ Alive
    /\ thr[t].pc = "cd_len"
    /\ guest' = IF ElemTracked(thr[t])
                THEN [guest EXCEPT !.used.ring[thr[t].slot].len = thr[t].c_len]
                ELSE guest
    /\ dma_rec' = [dma_rec EXCEPT ![t] = Append(@, "elem_len")]
    /\ thr' = [thr EXCEPT ![t] = Advance(@)]
    /\ UNCHANGED <<ioVars, regVars, notifyVars, fnVars, blk, backend, n_done>>

\* virtio_write16(s, used_idx_addr, used_idx + 1)
ConsumeWriteIdx(t) ==
    /\ Alive
    /\ thr[t].pc = "cd_idx"
    /\ guest' = IF thr[t].tracked
                THEN [guest EXCEPT !.used.idx = (thr[t].used_idx + 1) % U16]
                ELSE guest
    /\ dma_rec' = [dma_rec EXCEPT ![t] = Append(@, "used_idx")]
    /\ thr' = [thr EXCEPT ![t] = Advance(@)]
    /\ UNCHANGED <<ioVars, regVars, notifyVars, fnVars, blk, backend, n_done>>

\* s->int_status |= 1; set_irq(s->irq, 1)
ConsumeIrq(t) ==
    /\ Alive
    /\ thr[t].pc = "cd_irq"
    /\ dev' = [dev EXCEPT !.int_status = BitOr(@, 1), !.irq = 1]
    /\ dma_rec' = [dma_rec EXCEPT ![t] = Append(@, "irq")]
    /\ thr' = [thr EXCEPT ![t] = Advance(@)]
    /\ UNCHANGED <<ioVars, last_write, features_accepted, notifyVars, fnVars, guest, blk,
                   backend, n_done>>

\* the backend finishes a request it held and calls virtio_block_req_cb on
\* its thread, which enters virtio_block_req_end
CallbackStart ==
    /\ Alive
    /\ thr["B"].pc = "idle"
    /\ backend > 0
    /\ backend' = backend - 1
    /\ \E ret \in {0, -1} :
          thr' = [thr EXCEPT !["B"] = EnterReqEnd(IdleThread, blk.req, ret, <<"cb_clear">>)]
    /\ dma_rec' = [dma_rec EXCEPT !["B"] = <<>>]
    /\ UNCHANGED <<ioVars, regVars, notifyVars, fnVars, guest, blk, n_done>>

\* virtio_block_req_cb: s1->req_in_progress = FALSE, then queue_notify
CallbackClear(t) ==
    /\ Alive
    /\ thr[t].pc = "cb_clear"
    /\ blk' = [blk EXCEPT !.req_in_progress = FALSE]
    /\ thr' = [thr EXCEPT ![t] = [IdleThread EXCEPT !.pc = "qn_start",
                                                    !.q = blk.req.queue_idx]]
    /\ dma_rec' = [dma_rec EXCEPT ![t] = <<>>]
    /\ UNCHANGED <<ioVars, regVars, notifyVars, fnVars, guest, backend, n_done>>

EngineStep(t) ==
    \/ QueueNotifyStart(t)
    \/ QueueNotifyFetch(t)
    \/ QueueNotifyIncLoad(t)
    \/ QueueNotifyIncStore(t)
    \/ QueueNotifyReturn(t)
    \/ CopyReply(t)
    \/ ConsumeReadIdx(t)
    \/ ConsumeWriteId(t)
    \/ ConsumeWriteLen(t)
    \/ ConsumeWriteIdx(t)
    \/ ConsumeIrq(t)

BlockStep(t) ==
    \/ BlockRecv(t)
    \/ BlockSetInProgress(t)
    \/ CallbackClear(t)

\* virtio_net_write_packet, called by the network backend on its thread
\* with a packet of buf_len bytes, up to the first memcpy_to_queue; it
\* returns at once when the queue is not ready, no buffer is available, the
\* chain is rejected or the buffer is too small
NetWritePacket ==
    /\ Alive
    /\ dev.kind = "net"
    /\ thr["B"].pc = "idle"
    /\ LET qs == dev.queue[0]
           desc_idx == AvailRingAt(dev, 0, BitAnd(qs.last_avail_idx, qs.num - 1))
           size == get_desc_rw_size(DescTableAt(dev, 0), desc_idx)
           len == NetSizes.header_size + NetSizes.buf_len
       IN  /\ qs.ready # 0
           /\ qs.last_avail_idx # qs.avail_idx
           /\ size.returns /\ size.ret = 0
           /\ len <= IntOf(size.write_size)
           /\ thr' = [thr EXCEPT !["B"] =
                         [Begin(IdleThread, <<"net_hdr", "net_payload">>
                                            \o virtio_consume_desc_steps
                                            \o <<"qn_inc", "idle">>)
                          EXCEPT !.desc_idx = desc_idx, !.c_desc = desc_idx,
                                 !.c_len = len]]
    /\ dma_rec' = [dma_rec EXCEPT !["B"] = <<>>]
    /\ UNCHANGED <<ioVars, regVars, notifyVars, fnVars, guest, blk, backend, n_done>>

\* the two memcpy_to_queue calls of virtio_net_write_packet
NetCopy(t) ==
    /\ Alive
    /\ thr[t].pc \in {"net_hdr", "net_payload"}
    /\ LET r == thr[t]
           copied == IF r.pc = "net_hdr"
                     THEN memcpy_to_queue(DescTableAt(dev, r.q), r.desc_idx, 0,
                                          NetSizes.header_size)
                     ELSE memcpy_to_queue(DescTableAt(dev, r.q), r.desc_idx,
                                          NetSizes.header_size, NetSizes.buf_len)
       IN  dma_rec' = [dma_rec EXCEPT ![t] =
                          IF copied.copies = <<>> THEN @ ELSE Append(@, "payload")]
    /\ thr' = [thr EXCEPT ![t] = Advance(@)]
    /\ UNCHANGED <<ioVars, regVars, notifyVars, fnVars, guest, blk, backend, n_done>>

QueueNext ==
    \/ GuestPublish
    \/ WriteQueueNotify
    \/ WorkerServe
    \/ CallbackStart
    \/ NetWritePacket
    \/ \E t \in Threads : EngineStep(t)
    \/ \E t \in Threads : BlockStep(t)
    \/ \E t \in Threads : NetCopy(t)

\* a block device or a network device, set up by the driver
SpecQueue ==
    /\ \E kind \in {"block", "net"} : QueueInit(kind)
    /\ [][QueueNext]_vars

\* the driver writes 0 to Status: virtio_mmio_write lowers the IRQ and calls
\* virtio_reset, whatever the worker and the backend are doing
WriteStatusZero ==
    /\ Alive
    /\ MmioWrite(VIRTIO_MMIO_STATUS, 0)

\* the steps of a network device: notifications of its receive queue, which
\* only cache avail_idx, and packets delivered by the backend
NetStep(t) ==
    \/ QueueNotifyStart(t)
    \/ QueueNotifyReturn(t)
    \/ NetCopy(t)
    \/ ConsumeReadIdx(t)
    \/ ConsumeWriteId(t)
    \/ ConsumeWriteLen(t)
    \/ ConsumeWriteIdx(t)
    \/ ConsumeIrq(t)
    \/ QueueNotifyIncLoad(t)
    \/ QueueNotifyIncStore(t)

ResetNext ==
    \/ GuestPublish
    \/ WriteQueueNotify
    \/ WorkerServe
    \/ NetWritePacket
    \/ \E t \in Threads : NetStep(t)
    \/ WriteStatusZero

\* a network device whose driver resets it at any moment
SpecReset == QueueInit("net") /\ [][ResetNext]_vars

\* thread t performs the used.idx store of virtio_consume_desc in this step
StoresUsedIdx(t) == dma_rec'[t] = Append(dma_rec[t], "used_idx")

\* the positions of event e in the record of a completion
Positions(rec, e) == {i \in DOMAIN rec : rec[i] = e}

\* C4: for every completion on a queue, used.idx increases by exactly one
\* (mod 2^16) and the element {id, len} of the completion is in slot
\* (previous used.idx & (num - 1)) when the index is stored.
C4_UsedIdxAdvancesByOne ==
    [][\A t \in Threads :
          StoresUsedIdx(t) =>
             LET slot == BitAnd(guest.used.idx, dev.queue[thr[t].q].num - 1)
             IN  /\ guest'.used.idx = (guest.used.idx + 1) % U16
                 /\ guest'.used.ring[slot] = [id |-> thr[t].c_desc,
                                              len |-> thr[t].c_len]]_vars

C6_ElemThenIdxThenIrq ==
    \A t \in Threads :
       LET rec == dma_rec[t]
       IN  /\ \A i \in Positions(rec, "used_idx") :
                /\ \E j \in Positions(rec, "elem_id") : j < i
                /\ \E j \in Positions(rec, "elem_len") : j < i
                /\ \A j \in Positions(rec, "elem_id") \cup Positions(rec, "elem_len") :
                      j < i
           /\ \A i \in Positions(rec, "irq") :
                \E j \in Positions(rec, "used_idx") : j < i

\* virtio_consume_desc has raised the interrupt of a completion
C6_Witness ==
    /\ \E t \in Threads : Positions(dma_rec[t], "irq") # {}
    /\ dev.int_status # 0

\* C7: on every queue last_avail_idx changes only by +1 (mod 2^16).
C7_LastAvailIdxByOne ==
    [][\A q \in QueueIdx :
          dev'.queue[q].last_avail_idx # dev.queue[q].last_avail_idx =>
             dev'.queue[q].last_avail_idx
                = (dev.queue[q].last_avail_idx + 1) % U16]_vars

\* C10: a write of 0 to Status from any reachable state yields the state
\* after construction: the device record of virtio_init, cached avail_idx
\* included, and no pending notification; a second write of 0 changes
\* nothing.
C10_ResetRestoresConstruction ==
    [][WriteStatusZero =>
          /\ dev' = virtio_init(dev.kind)
          /\ \A i \in Devs : pending_queue_notify'[i] = 0
          /\ (dev = virtio_init(dev.kind) => dev' = dev)]_vars

\* thread t makes the step of virtio_block_recv_request that tests
\* req_in_progress and, past the test, records the request and calls the
\* backend
RecvStep(t) == thr[t].pc = "recv" /\ thr'[t].pc # "recv"

\* C11: while a block request is outstanding (the backend holds it for a
\* later callback), device_recv for a further chain returns -1 without
\* starting it and without overwriting the record of the request in
\* progress.
C11_ReentrancyGuard ==
    [][\A t \in Threads :
          (RecvStep(t) /\ backend > 0) =>
             /\ thr'[t].pc = "qn_ret"
             /\ blk'.req = blk.req
             /\ backend' = backend]_vars

(***************************************************************************)
(* SpecBlockReq: one block request from virtio_block_recv_request to the   *)
(* end of virtio_block_req_end, on one thread.  The chain is a header      *)
(* descriptor followed by the writable bytes, none to 1025 of them, in one *)
(* descriptor or with the last byte in a descriptor of its own; the        *)
(* backend answers at once or holds the request and answers in the         *)
(* callback.                                                               *)
(***************************************************************************)
VIRTIO_BLK_S_OK == 0

VIRTIO_BLK_S_IOERR == 1

\* sizeof(BlockRequestHeader)
BlockHeaderSize == 16

\* writable bytes of the request's chain
StatusRooms == {0, 1, 2, 512, 513, 1024, 1025}

\* what the backend passes to virtio_block_req_cb
CallbackReturns == {1, 0, -1}

\* the outcome of a request: aborted = an assert failed; undefined = a
\* byte was stored outside the malloc'ed buf; status_addrs = the guest
\* addresses that received the status byte `status`; consumed = the calls
\* of virtio_consume_desc
RequestOutcome(aborted, undefined, status, status_addrs, consumed) ==
    [aborted |-> aborted, undefined |-> undefined, status |-> status,
     status_addrs |-> status_addrs, consumed |-> consumed]

\* virtio_block_req_end for an IN or OUT request: the status byte is the
\* last byte of buf (buf[write_size - 1]) for IN and buf1[0] for OUT
virtio_block_req_end(table, req, ret) ==
    LET status == IF ret < 0 THEN VIRTIO_BLK_S_IOERR ELSE VIRTIO_BLK_S_OK
        count == IF req.type = "OUT" THEN 1 ELSE req.write_size
        reply == memcpy_to_queue(table, req.desc_idx, 0, count)
        status_addrs == {reply.copies[i][1] : i \in {k \in DOMAIN reply.copies :
                                                      reply.copies[k][2] = count - 1}}
    IN  RequestOutcome(FALSE, count - 1 < 0, status, status_addrs,
                       <<[id |-> req.desc_idx, len |-> count]>>)

\* virtio_block_recv_request for an IN or OUT header; ret is what
\* read_async / write_async returns and cb_ret what the callback is given
\* when the backend held the request (ret > 0)
virtio_block_recv_request(table, type, desc_idx, read_size, write_size, ret, cb_ret) ==
    LET header == memcpy_from_queue(table, desc_idx, 0, BlockHeaderSize)
        req == [type |-> type, queue_idx |-> 0, desc_idx |-> desc_idx,
                write_size |-> write_size]
    IN  IF header.ret < 0
        THEN RequestOutcome(FALSE, FALSE, VIRTIO_BLK_S_OK, {}, <<>>)
        ELSE IF type = "OUT" /\ ~(write_size >= 1)
        THEN RequestOutcome(TRUE, FALSE, VIRTIO_BLK_S_OK, {}, <<>>)
        ELSE virtio_block_req_end(table, req, IF ret > 0 THEN cb_ret ELSE ret)

\* the chain of a request: the header (and the data of an OUT request) in
\* descriptor 0, the writable bytes in descriptor 1, or in descriptors 1
\* and 2 with the last byte alone in descriptor 2
BlockReqInit ==
    /\ \E type \in {"IN", "OUT"}, room \in StatusRooms, split \in BOOLEAN :
          /\ split => room > 1
          /\ desc_table =
                [i \in DescIdx |->
                    IF i = 0
                    THEN [addr |-> 0,
                          len |-> W32(IF type = "OUT" THEN BlockHeaderSize + 512
                                      ELSE BlockHeaderSize),
                          flags |-> IF room > 0 THEN VRING_DESC_F_NEXT ELSE 0,
                          next |-> 1]
                    ELSE IF i = 1 /\ room > 0
                    THEN [addr |-> 1024,
                          len |-> W32(IF split THEN room - 1 ELSE room),
                          flags |-> IF split
                                    THEN VRING_DESC_F_WRITE + VRING_DESC_F_NEXT
                                    ELSE VRING_DESC_F_WRITE,
                          next |-> 2]
                    ELSE IF i = 2 /\ split
                    THEN [addr |-> 4096, len |-> W32(1),
                          flags |-> VRING_DESC_F_WRITE, next |-> 0]
                    ELSE ZeroDesc]
          /\ guest = [GuestAt(0) EXCEPT !.hdr = (0 :> type)]
    /\ call = <<>>
    /\ result = <<>>
    /\ RegIdle
    /\ NotifyIdle
    /\ IoIdle
    /\ blk = [req_in_progress |-> FALSE, req |-> NoRequest]
    /\ backend = 0
    /\ thr = [t \in Threads |-> IdleThread]
    /\ dma_rec = [t \in Threads |-> <<>>]
    /\ n_done = 0

\* queue_notify hands the chain to virtio_block_recv_request
CallBlockRequest ==
    /\ call = <<>>
    /\ \E ret \in BackendReturns, cb_ret \in CallbackReturns :
          LET size == get_desc_rw_size(desc_table, 0)
              type == HeaderTypeAt(0)
          IN  /\ size.returns /\ size.ret = 0
              /\ call' = <<[fn |-> "virtio_block_recv_request", type |-> type,
                            ret |-> IF ret > 0 THEN cb_ret ELSE ret,
                            held |-> ret > 0]>>
              /\ result' = <<virtio_block_recv_request(
                                desc_table, type, 0, IntOf(size.read_size),
                                IntOf(size.write_size), ret, cb_ret)>>
    /\ UNCHANGED <<ioVars, regVars, notifyVars, queueVars, desc_table>>

BlockReqNext == CallBlockRequest

SpecBlockReq == BlockReqInit /\ [][BlockReqNext]_vars

\* C12: for every block IN or OUT request whose backend result is ret < 0,
\* returned at once or given to the callback, the status byte written to the
\* chain is IOERR (1), and with ret >= 0 it is OK (0); virtio_consume_desc is
\* called exactly once for the chain in both cases.
C12_StatusByteAndConsume ==
    (result # <<>>) =>
        LET r == result[1]
            a == call[1]
        IN  /\ ~r.aborted /\ ~r.undefined
            /\ Cardinality(r.status_addrs) = 1
            /\ r.status = (IF a.ret < 0 THEN 1 ELSE 0)
            /\ Len(r.consumed) = 1
            /\ r.consumed[1].id = 0


(***************************************************************************)
(* The MMIO request dispatcher (FPGA_io::emulated_mmio_respond) with the   *)
(* HTIF mailbox, the SiFive test finisher, the ROM and the host-stdin      *)
(* queue.  A 64-bit bus word is <<h3, h2, h1, h0>>, four 16-bit halves,    *)
(* most significant first.                                                 *)
(***************************************************************************)
Zero64 == <<0, 0, 0, 0>>

\* set_htif_base_addr(0x10001000) of the constructor
HtifBase == 268439552
TOHOST_OFFSET == 0
FROMHOST_OFFSET == 8
tohost_addr == HtifBase + TOHOST_OFFSET
fromhost_addr == HtifBase + FROMHOST_OFFSET

\* sifive_test_addr(0x50000000) of the constructor
sifive_test_addr == 1342177280

\* the exit code of a guest-requested reset
EXIT_CODE_RESET == 75

\* the one range registered on the bus: a virtio MMIO device
VirtioRange == [addr |-> 1073741824, size |-> 4096]

\* the boot ROM handed to the constructor: two 64-bit words
rom == [base |-> 4096, limit |-> 4112,
        data |-> <<<<4660, 22136, 39612, 57072>>, <<0, 0, 0, 19>>>>]

\* VirtioDevices::get_phys_mem_range: <<>> for NULL
get_phys_mem_range(addr) ==
    IF VirtioRange.addr <= addr /\ addr < VirtioRange.addr + VirtioRange.size
    THEN <<VirtioRange>>
    ELSE <<>>

\* FPGA::stop_io: the code is stored, the stop byte is written to the
\* console-input thread's pipe and the devices are told to stop
stop_io(f, code) ==
    [f EXCEPT !.exit_code = code, !.stops = Append(@, code)]

\* FPGA_io::console_putchar: fputc converts its argument to unsigned char
console_putchar(f, payload) ==
    [f EXCEPT !.console = Append(@, payload[3] % 256)]

\* a dequeue that hands out the newest character instead of the oldest
dequeue_stdin_newest(f) ==
    IF Len(f.stdin_queue) > 0
    THEN [ch |-> <<f.stdin_queue[Len(f.stdin_queue)]>>,
          fpga |-> [f EXCEPT !.stdin_queue =
                                SubSeq(@, 1, Len(f.stdin_queue) - 1)]]
    ELSE [ch |-> <<>>, fpga |-> f]

\* FPGA::dequeue_stdin, called with stdin_mutex free: <<>> for "return 0"
dequeue_stdin(f) ==
    IF Len(f.stdin_queue) > 0
    THEN [ch |-> <<Head(f.stdin_queue)>>,
          fpga |-> [f EXCEPT !.stdin_queue = Tail(@)]]
    ELSE [ch |-> <<>>, fpga |-> f]

\* "int code = payload >> 1" for the 48-bit payload <<p2, p1, p0>>: bits
\* 32..1 of the payload, stored in a 32-bit int
HtifFailCode(payload) ==
    LET low31 == (payload[2] * 32768) + (payload[3] \div 2)
    IN  IF payload[1] % 2 = 1
        THEN (low31 - 1073741824) - 1073741824
        ELSE low31

\* the tohost branch of the write path
HtifWrite(f, wdata) ==
    LET htif_dev == wdata[1] \div 256
        cmd == wdata[1] % 256
        payload == <<wdata[2], wdata[3], wdata[4]>>
    IN  IF htif_dev = 1 /\ cmd = 1
        THEN console_putchar(f, payload)
        ELSE IF htif_dev = 0 /\ cmd = 0
        THEN IF payload = <<0, 0, 1>>
             THEN stop_io(f, 0)
             ELSE stop_io(f, HtifFailCode(payload))
        ELSE f

\* a finisher that takes the failure code from the status half
SifiveTestWriteLowHalf(f, wdata) ==
    LET status == wdata[4]
    IN  IF status = 13107
        THEN stop_io(f, wdata[4])
        ELSE IF status = 21845
        THEN stop_io(f, 0)
        ELSE IF status = 30583
        THEN stop_io(f, EXIT_CODE_RESET)
        ELSE f

\* the sifive_test_addr branch of the write path
SifiveTestWrite(f, wdata) ==
    LET status == wdata[4]
    IN  IF status = 13107
        THEN stop_io(f, wdata[3])
        ELSE IF status = 21845
        THEN stop_io(f, 0)
        ELSE IF status = 30583
        THEN stop_io(f, EXIT_CODE_RESET)
        ELSE f

\* a write path whose last branch ends the run instead of ignoring the write
WritePathStrayStops(f, waddr, wdata) ==
    LET pr == get_phys_mem_range(waddr)
    IN  IF pr # <<>>
        THEN [fpga |-> f,
              forwarded |-> <<[fn |-> "write_func",
                               offset |-> waddr - pr[1].addr,
                               val |-> IF (waddr \div 4) % 2 = 1
                                       THEN <<wdata[1], wdata[2]>>
                                       ELSE <<wdata[3], wdata[4]>>]>>]
        ELSE IF waddr = tohost_addr
        THEN [fpga |-> HtifWrite(f, wdata), forwarded |-> <<>>]
        ELSE IF waddr = fromhost_addr
        THEN [fpga |-> f, forwarded |-> <<>>]
        ELSE IF waddr = sifive_test_addr
        THEN [fpga |-> SifiveTestWrite(f, wdata), forwarded |-> <<>>]
        ELSE [fpga |-> stop_io(f, 1), forwarded |-> <<>>]

\* a write path that always takes the low half of the bus word
WritePathLowLane(f, waddr, wdata) ==
    LET pr == get_phys_mem_range(waddr)
    IN  IF pr # <<>>
        THEN [fpga |-> f,
              forwarded |-> <<[fn |-> "write_func",
                               offset |-> waddr - pr[1].addr,
                               val |-> <<wdata[3], wdata[4]>>]>>]
        ELSE IF waddr = tohost_addr
        THEN [fpga |-> HtifWrite(f, wdata), forwarded |-> <<>>]
        ELSE IF waddr = fromhost_addr
        THEN [fpga |-> f, forwarded |-> <<>>]
        ELSE IF waddr = sifive_test_addr
        THEN [fpga |-> SifiveTestWrite(f, wdata), forwarded |-> <<>>]
        ELSE [fpga |-> f, forwarded |-> <<>>]

\* the write path: the new FPGA state and the call of the range's
\* write_func, if one was made
WritePath(f, waddr, wdata) ==
    LET pr == get_phys_mem_range(waddr)
    IN  IF pr # <<>>
        THEN [fpga |-> f,
              forwarded |-> <<[fn |-> "write_func",
                               offset |-> waddr - pr[1].addr,
                               val |-> IF (waddr \div 4) % 2 = 1
                                       THEN <<wdata[1], wdata[2]>>
                                       ELSE <<wdata[3], wdata[4]>>]>>]
        ELSE IF waddr = tohost_addr
        THEN [fpga |-> HtifWrite(f, wdata), forwarded |-> <<>>]
        ELSE IF waddr = fromhost_addr
        THEN [fpga |-> f, forwarded |-> <<>>]
        ELSE IF waddr = sifive_test_addr
        THEN [fpga |-> SifiveTestWrite(f, wdata), forwarded |-> <<>>]
        ELSE [fpga |-> f, forwarded |-> <<>>]

\* the read path with arlen = 0: the new FPGA state, the values written to
\* VD_READ_DATA in order, the call of the range's read_func and the
\* character taken from the host-stdin queue; val is what read_func returns
ReadPath(f, araddr, val) ==
    LET pr == get_phys_mem_range(araddr)
        offset == araddr - pr[1].addr
        got == dequeue_stdin(f)
    IN  IF pr # <<>>
        THEN [fpga |-> f,
              read_data |-> <<IF offset % 8 = 4
                              THEN <<val[1], val[2], 0, 0>>
                              ELSE <<0, 0, val[1], val[2]>>>>,
              forwarded |-> <<[fn |-> "read_func", offset |-> offset,
                               val |-> val]>>,
              returned |-> <<>>]
        ELSE IF rom.base <= araddr /\ araddr < rom.limit
        THEN [fpga |-> f,
              read_data |-> <<rom.data[((araddr - rom.base) \div 8) + 1]>>,
              forwarded |-> <<>>, returned |-> <<>>]
        ELSE IF araddr = fromhost_addr
        THEN IF f.htif_enabled /\ got.ch # <<>>
             THEN [fpga |-> got.fpga,
                   read_data |-> <<<<256, 0, 0, got.ch[1]>>>>,
                   forwarded |-> <<>>, returned |-> got.ch]
             ELSE [fpga |-> IF f.htif_enabled THEN got.fpga ELSE f,
                   read_data |-> <<Zero64>>,
                   forwarded |-> <<>>, returned |-> <<>>]
        ELSE IF araddr = sifive_test_addr
        THEN [fpga |-> f, read_data |-> <<Zero64>>,
              forwarded |-> <<>>, returned |-> <<>>]
        ELSE [fpga |-> f, read_data |-> <<Zero64>>,
              forwarded |-> <<>>, returned |-> <<>>]

\* a dispatcher that sends the response before it stores the read data
RespondLogLateData(is_write, read_data) ==
    IF is_write
    THEN <<"r:VD_IS_WRITE", "r:VD_WRITE_ADDR", "r:VD_WRITE_DATA",
           "r:VD_WRITE_BYEN", "w:VD_SEND_RESP">>
    ELSE <<"r:VD_IS_WRITE", "r:VD_READ_ADDR", "r:VD_REQ_ID",
           "w:VD_SEND_RESP">>
         \o [i \in 1..Len(read_data) |-> "w:VD_READ_DATA"]

\* the side-band accesses of one call, in program order
RespondLog(is_write, read_data) ==
    IF is_write
    THEN <<"r:VD_IS_WRITE", "r:VD_WRITE_ADDR", "r:VD_WRITE_DATA",
           "r:VD_WRITE_BYEN", "w:VD_SEND_RESP">>
    ELSE <<"r:VD_IS_WRITE", "r:VD_READ_ADDR", "r:VD_REQ_ID">>
         \o [i \in 1..Len(read_data) |-> "w:VD_READ_DATA"]
         \o <<"w:VD_SEND_RESP">>

\* FPGA_io::emulated_mmio_respond on the pending request req
emulated_mmio_respond(f, req, val) ==
    IF req.is_write
    THEN LET w == WritePath(f, req.addr, req.data)
         IN  [fpga |-> w.fpga, log |-> RespondLog(TRUE, <<>>),
              read_data |-> <<>>, forwarded |-> w.forwarded,
              returned |-> <<>>]
    ELSE LET r == ReadPath(f, req.addr, val)
         IN  [fpga |-> r.fpga, log |-> RespondLog(FALSE, r.read_data),
              read_data |-> r.read_data, forwarded |-> r.forwarded,
              returned |-> r.returned]

\* requests the dispatcher serves in a run, and reads the console-input
\* thread makes
MaxRequests == 2
MaxReads == 2

\* guest addresses: two registers of the virtio range (offsets 0x70, 0x14),
\* the ROM words, tohost, fromhost, the test finisher and two strays
IoAddrs ==
    {VirtioRange.addr + 112, VirtioRange.addr + 20, rom.base, rom.base + 8,
     tohost_addr, fromhost_addr, sifive_test_addr, HtifBase + 16, 1610612736}

\* bus words written by the guest: HTIF putchar 'A', finish with payload 1,
\* 7, 0, 2^33 and 2^32, an unknown HTIF device, and the finisher's FAIL 3,
\* FAIL 0, PASS and RESET
IoData ==
    {<<257, 0, 0, 65>>, <<0, 0, 0, 1>>, <<0, 0, 0, 7>>, Zero64,
     <<0, 2, 0, 0>>, <<0, 1, 0, 0>>, <<256, 0, 0, 5>>,
     <<0, 0, 3, 13107>>, <<0, 0, 0, 13107>>, <<0, 0, 0, 21845>>,
     <<0, 0, 0, 30583>>}

\* what the range's read_func returns
ReadVals == {<<0, 0>>, <<1, 2>>}

\* what one read() of the console-input thread delivers: 1 is C-a, 120 'x',
\* 114 'r', 104 'h'
StdinBufs == {<<97>>, <<98, 99>>, <<1>>, <<1, 104, 100>>, <<101, 1, 120>>, <<1, 114>>}

\* the request takes stdin_mutex: a fromhost read that reaches dequeue_stdin
TakesStdinMutex(f, req) ==
    /\ ~req.is_write
    /\ get_phys_mem_range(req.addr) = <<>>
    /\ ~(rom.base <= req.addr /\ req.addr < rom.limit)
    /\ req.addr = fromhost_addr
    /\ f.htif_enabled

\* the dispatcher thread serves one pending request: a write if is_write,
\* to one of addrs
Respond(kinds, addrs) ==
    /\ chan.served < MaxRequests
    /\ fpga.joined = <<>>
    /\ \E is_write \in kinds, addr \in addrs, data \in IoData, val \in ReadVals :
          /\ ~is_write => data = Zero64
          /\ (is_write \/ get_phys_mem_range(addr) = <<>>) => val = <<0, 0>>
          /\ LET req == [is_write |-> is_write, addr |-> addr, data |-> data]
                 r == emulated_mmio_respond(fpga, req, val)
             IN  /\ TakesStdinMutex(fpga, req) => fpga.stdin_mutex = "free"
                 /\ fpga' = r.fpga
                 /\ chan' = [served |-> chan.served + 1, req |-> <<req>>,
                             log |-> r.log, read_data |-> r.read_data,
                             forwarded |-> r.forwarded,
                             returned |-> chan.returned \o r.returned]
    /\ UNCHANGED <<pump, isr, regVars, notifyVars, fnVars, queueVars>>

\* FPGA::join_io on the dispatcher's thread: pthread_join of the
\* console-input thread, then the exit code is returned
JoinIo ==
    /\ fpga.joined = <<>>
    /\ pump.pc = "exited"
    /\ fpga' = [fpga EXCEPT !.joined = <<fpga.exit_code>>]
    /\ UNCHANGED <<chan, pump, isr, regVars, notifyVars, fnVars, queueVars>>

RECURSIVE enqueue_scan(_, _, _)
\* the first loop of FPGA::enqueue_stdin: the C-a escapes are taken out of
\* buf; stopped is the early return after stop_io
enqueue_scan(f, buf, out) ==
    IF buf = <<>>
    THEN [fpga |-> f, out |-> out, stopped |-> FALSE]
    ELSE LET c == Head(buf)
             g == [f EXCEPT !.ctrla_seen = 0]
         IN  IF f.ctrla_seen = 1
             THEN IF c = 120
                  THEN [fpga |-> stop_io(g, 0), out |-> <<>>, stopped |-> TRUE]
                  ELSE IF c = 114
                  THEN [fpga |-> stop_io(g, EXIT_CODE_RESET), out |-> <<>>,
                        stopped |-> TRUE]
                  ELSE IF c = 104
                  THEN enqueue_scan(g, Tail(buf), out)
                  ELSE enqueue_scan(g, Tail(buf), Append(out, c))
             ELSE IF c = 1
             THEN enqueue_scan([f EXCEPT !.ctrla_seen = 1], Tail(buf), out)
             ELSE enqueue_scan(f, Tail(buf), Append(out, c))

\* process_stdin: select() returns with stdin readable and no stop byte,
\* read() delivers buf and enqueue_stdin runs up to the lock_guard; with a
\* virtio console the characters go to virtio_stdio_pipe instead
PumpRead ==
    /\ pump.pc = "select"
    /\ fpga.stops = <<>>
    /\ pump.reads < MaxReads
    /\ \E buf \in StdinBufs :
          LET s == enqueue_scan(fpga, buf, <<>>)
          IN  IF s.stopped \/ s.out = <<>>
              THEN /\ fpga' = s.fpga
                   /\ pump' = [pump EXCEPT !.reads = @ + 1]
              ELSE IF fpga.has_console
              THEN /\ fpga' = [s.fpga EXCEPT !.pipe = @ \o s.out]
                   /\ pump' = [pump EXCEPT !.reads = @ + 1]
              ELSE /\ fpga' = s.fpga
                   /\ pump' = [pump EXCEPT !.reads = @ + 1, !.pc = "lock",
                                           !.buf = s.out,
                                           !.accepted = @ \o s.out]
    /\ UNCHANGED <<chan, isr, regVars, notifyVars, fnVars, queueVars>>

\* std::lock_guard<std::mutex> lock(stdin_mutex) of enqueue_stdin
PumpLock ==
    /\ pump.pc = "lock"
    /\ fpga.stdin_mutex = "free"
    /\ fpga' = [fpga EXCEPT !.stdin_mutex = "pump"]
    /\ pump' = [pump EXCEPT !.pc = "push"]
    /\ UNCHANGED <<chan, isr, regVars, notifyVars, fnVars, queueVars>>

\* one turn of the push loop; after the last one the lock_guard is released
PumpPush ==
    /\ pump.pc = "push"
    /\ IF pump.buf = <<>>
       THEN /\ fpga' = [fpga EXCEPT !.stdin_mutex = "free"]
            /\ pump' = [pump EXCEPT !.pc = "select"]
       ELSE /\ fpga' = [fpga EXCEPT !.stdin_queue = Append(@, Head(pump.buf))]
            /\ pump' = [pump EXCEPT !.buf = Tail(@)]
    /\ UNCHANGED <<chan, isr, regVars, notifyVars, fnVars, queueVars>>

\* process_stdin: select() reports the stop byte and the thread ends
PumpExit ==
    /\ pump.pc = "select"
    /\ fpga.stops # <<>>
    /\ pump' = [pump EXCEPT !.pc = "exited"]
    /\ UNCHANGED <<fpga, chan, isr, regVars, notifyVars, fnVars, queueVars>>

\* the start-up code chooses whether HTIF is enabled and whether a virtio
\* console takes the host's input
IoInit ==
    /\ \E htif \in BOOLEAN, has_console \in BOOLEAN :
          fpga = FPGA(htif, has_console, 0)
    /\ chan = IdleChan
    /\ pump = IdlePump
    /\ isr = IdleIsr
    /\ RegIdle
    /\ NotifyIdle
    /\ FnIdle
    /\ QueueIdle

\* the dispatcher serving any request, and the run's end
DispatchNext ==
    \/ Respond(BOOLEAN, IoAddrs)
    \/ PumpExit
    \/ JoinIo

SpecDispatch == IoInit /\ [][DispatchNext]_vars

\* the dispatcher reading fromhost while the console-input thread enqueues
StdinNext ==
    \/ Respond({FALSE}, {fromhost_addr})
    \/ PumpRead
    \/ PumpLock
    \/ PumpPush
    \/ PumpExit

SpecStdin == IoInit /\ [][StdinNext]_vars

\* the step is a dispatcher call: one more request served
RespondStep == chan'.served = chan.served + 1

\* the request served by the step
Served == chan'.req[1]

Count(log, entry) == Cardinality({i \in 1..Len(log) : log[i] = entry})

\* C13: every dispatcher call writes VD_SEND_RESP exactly once, as the last
\* side-band access of the call, on every path; a read request writes
\* VD_READ_DATA exactly once, before the response.
C13_ResponseOnceAndLast ==
    (chan.req # <<>>) =>
        /\ Count(chan.log, "w:VD_SEND_RESP") = 1
        /\ chan.log[Len(chan.log)] = "w:VD_SEND_RESP"
        /\ Count(chan.log, "w:VD_READ_DATA")
              = (IF chan.req[1].is_write THEN 0 ELSE 1)
        /\ Len(chan.read_data) = (IF chan.req[1].is_write THEN 0 ELSE 1)

\* a read served after a write that called stop_io
C13_Witness ==
    /\ chan.served = 2
    /\ fpga.stops # <<>>
    /\ ~chan.req[1].is_write
    /\ chan.log = <<"r:VD_IS_WRITE", "r:VD_READ_ADDR", "r:VD_REQ_ID",
                    "w:VD_READ_DATA", "w:VD_SEND_RESP">>

\* no branch of the write path before the last one takes the address
StrayWrite(req) ==
    /\ req.is_write
    /\ get_phys_mem_range(req.addr) = <<>>
    /\ req.addr \notin {tohost_addr, fromhost_addr, sifive_test_addr}

\* no branch of the read path before the last one takes the address
StrayRead(req) ==
    /\ ~req.is_write
    /\ get_phys_mem_range(req.addr) = <<>>
    /\ ~(rom.base <= req.addr /\ req.addr < rom.limit)
    /\ req.addr \notin {fromhost_addr, sifive_test_addr}

\* C14: a stray write changes no device state, raises no IRQ and does not
\* stop the run; a stray read responds 0 and changes no state.
C14_StrayAccessFrame ==
    [][(RespondStep /\ (StrayWrite(Served) \/ StrayRead(Served))) =>
          /\ fpga' = fpga
          /\ chan'.forwarded = <<>>
          /\ chan'.returned = chan.returned
          /\ UNCHANGED <<pump, isr, regVars, notifyVars, fnVars, queueVars>>
          /\ StrayRead(Served) => chan'.read_data = <<Zero64>>]_vars

\* a stray read served after a stray write
C14_Witness ==
    /\ chan.served = 2
    /\ StrayRead(chan.req[1])
    /\ chan.read_data = <<Zero64>>
    /\ fpga.stops = <<>>

\* the write reaches the tohost branch
HtifRequest(req) ==
    /\ req.is_write
    /\ get_phys_mem_range(req.addr) = <<>>
    /\ req.addr = tohost_addr

\* the int code is the number payload >> 1 of the 48-bit payload
\* <<p2, p1, p0>>
IsPayloadShr1(code, payload) ==
    /\ payload[1] = 0
    /\ payload[2] < 32768
    /\ code = (payload[2] * 32768) + (payload[3] \div 2)

\* C15: a write to tohost_addr with dev = 1, cmd = 1 emits the character and
\* neither stops the run nor changes the IRQ state; dev = 0, cmd = 0 calls
\* stop_io(0) if payload = 1 and stop_io(payload >> 1) otherwise; every
\* other (dev, cmd) changes no state.
C15_HtifDecode ==
    [][(RespondStep /\ HtifRequest(Served)) =>
          LET wdata == Served.data
              htif_dev == wdata[1] \div 256
              cmd == wdata[1] % 256
              payload == <<wdata[2], wdata[3], wdata[4]>>
          IN  IF htif_dev = 1 /\ cmd = 1
              THEN fpga' = [fpga EXCEPT !.console = Append(@, wdata[4] % 256)]
              ELSE IF htif_dev = 0 /\ cmd = 0
              THEN /\ Len(fpga'.stops) = Len(fpga.stops) + 1
                   /\ LET code == fpga'.stops[Len(fpga'.stops)]
                      IN  IF payload = <<0, 0, 1>>
                          THEN code = 0
                          ELSE IsPayloadShr1(code, payload)
              ELSE fpga' = fpga]_vars

\* the guest's report: "pass", "fail", "reset", or "none" for a request
\* that asks for no stop
GuestReport(req) ==
    IF ~req.is_write \/ get_phys_mem_range(req.addr) # <<>>
    THEN "none"
    ELSE IF req.addr = tohost_addr
    THEN IF req.data[1] # 0
         THEN "none"
         ELSE IF <<req.data[2], req.data[3], req.data[4]>> = <<0, 0, 1>>
         THEN "pass"
         ELSE "fail"
    ELSE IF req.addr = sifive_test_addr
    THEN IF req.data[4] = 21845
         THEN "pass"
         ELSE IF req.data[4] = 13107
         THEN "fail"
         ELSE IF req.data[4] = 30583
         THEN "reset"
         ELSE "none"
    ELSE "none"

\* C16: the exit code recorded by a guest-initiated stop is 0 exactly when
\* the guest reported PASS; a reported failure records a positive code and
\* a reset request records EXIT_CODE_RESET.
C16_ExitCodes ==
    [][(RespondStep /\ GuestReport(Served) # "none") =>
          /\ (fpga'.exit_code = 0) <=> (GuestReport(Served) = "pass")
          /\ (GuestReport(Served) = "fail") => fpga'.exit_code > 0
          /\ (GuestReport(Served) = "reset")
                => fpga'.exit_code = EXIT_CODE_RESET]_vars

\* the characters enqueue_stdin still has to push
PumpPending == IF pump.pc \in {"lock", "push"} THEN pump.buf ELSE <<>>

\* C17: a read of fromhost_addr responds (1 << 56) | c and removes the
\* oldest character c of the host-stdin queue when HTIF is enabled and the
\* queue is not empty, and responds 0 leaving the queue unchanged otherwise;
\* under every interleaving with enqueue_stdin the characters returned,
\* those queued and those still to be pushed are, in this order, the
\* characters enqueue_stdin accepted: none lost, none twice, none reordered.
C17_FromhostReads ==
    [][/\ (RespondStep /\ ~Served.is_write /\ Served.addr = fromhost_addr) =>
             IF fpga.htif_enabled /\ fpga.stdin_queue # <<>>
             THEN /\ chan'.read_data
                        = <<<<256, 0, 0, Head(fpga.stdin_queue)>>>>
                  /\ fpga'.stdin_queue = Tail(fpga.stdin_queue)
                  /\ chan'.returned
                        = Append(chan.returned, Head(fpga.stdin_queue))
             ELSE /\ chan'.read_data = <<Zero64>>
                  /\ fpga'.stdin_queue = fpga.stdin_queue
                  /\ chan'.returned = chan.returned
       /\ (pump.accepted = chan.returned \o fpga.stdin_queue \o PumpPending)'
      ]_vars

\* two characters returned while a third waits in the queue
C17_Witness ==
    /\ Len(chan.returned) = 2
    /\ chan.returned[1] # chan.returned[2]
    /\ fpga.stdin_queue # <<>>
    /\ pump.accepted = chan.returned \o fpga.stdin_queue \o PumpPending

\* the write reaches the test-finisher branch
SifiveRequest(req) ==
    /\ req.is_write
    /\ get_phys_mem_range(req.addr) = <<>>
    /\ req.addr = sifive_test_addr

\* C18: a write to sifive_test_addr with status 0x5555 calls stop_io(0),
\* 0x3333 calls stop_io(bits 31..16 of the data), 0x7777 calls
\* stop_io(EXIT_CODE_RESET) and any other status calls no stop_io; the
\* join_io that follows returns the code passed to the last stop_io.
C18_SifiveFinisher ==
    [][/\ (RespondStep /\ SifiveRequest(Served)) =>
             LET status == Served.data[4]
             IN  IF status = 21845
                 THEN fpga'.stops = Append(fpga.stops, 0)
                 ELSE IF status = 13107
                 THEN fpga'.stops = Append(fpga.stops, Served.data[3])
                 ELSE IF status = 30583
                 THEN fpga'.stops = Append(fpga.stops, EXIT_CODE_RESET)
                 ELSE fpga' = fpga
       /\ (fpga.joined = <<>> /\ fpga'.joined # <<>>) =>
             fpga'.joined = <<fpga.stops[Len(fpga.stops)]>>
      ]_vars

\* join_io has returned the failure code 3 of a finisher write
C18_Witness ==
    /\ chan.req # <<>>
    /\ SifiveRequest(chan.req[1])
    /\ chan.req[1].data = <<0, 0, 3, 13107>>
    /\ fpga.joined = <<3>>

\* C19: once virtio_stop_pending_notify_thread has been called, the
\* NotifyWorker eventually exits under fair scheduling, whatever its
\* position and whatever async_queue_notify calls interleave with the stop.
C19_StopLeadsToExit == stop_called ~> (worker.pc = "exited")

\* what the worker does guarantee: after the stop it exits unless it is
\* inside a queue_notify that never returns
C19_ExitUnlessHung ==
    stop_called ~> (worker.pc \in {"exited", "in_queue_notify"})

(***************************************************************************)
(* The interrupt line and int_status, with every MMIO write, every         *)
(* virtio_consume_desc and every virtio_config_change_notify one step.     *)
(***************************************************************************)
\* virtio_consume_desc(s, q, desc_idx, desc_len) as one step, on the device
\* and on the guest memory g
virtio_consume_desc(s, g, q, desc_idx, desc_len) ==
    LET tracked == s.queue[q].used_addr = <<0, RingSetup.used>>
        used_idx == IF tracked THEN g.used.idx ELSE 0
        slot == BitAnd(used_idx, s.queue[q].num - 1)
    IN  [dev |-> [s EXCEPT !.int_status = BitOr(@, 1), !.irq = 1],
         guest |-> IF tracked /\ slot \in DOMAIN g.used.ring
                   THEN [g EXCEPT !.used.ring[slot] =
                                     [id |-> desc_idx, len |-> desc_len],
                                  !.used.idx = (used_idx + 1) % U16]
                   ELSE IF tracked
                   THEN [g EXCEPT !.used.idx = (used_idx + 1) % U16]
                   ELSE g]

\* virtio_config_change_notify: the INT_CONFIG interrupt
virtio_config_change_notify(s) ==
    [s EXCEPT !.int_status = BitOr(@, 2), !.irq = 1]

\* values the driver writes to InterruptACK
AckVals == {0, 1, 2, 3}

\* device-side interrupts raised in a run
MaxInterrupts == 2

AckWrite == \E val \in AckVals : MmioWrite(VIRTIO_MMIO_INTERRUPT_ACK, val)

StatusRewrite == \E val \in StatusVals : MmioWrite(VIRTIO_MMIO_STATUS, val)

\* a backend completes a chain of queue 0
ConsumeDesc ==
    /\ n_done < MaxInterrupts
    /\ n_done' = n_done + 1
    /\ \E desc_idx \in ChainIdx :
          LET r == virtio_consume_desc(dev, guest, 0, desc_idx, 1)
          IN  /\ dev' = r.dev
              /\ guest' = r.guest
    /\ UNCHANGED <<ioVars, last_write, features_accepted, notifyVars, fnVars,
                   blk, backend, thr, dma_rec>>

\* the device's configuration changes (console resize, link status)
ConfigChangeNotify ==
    /\ n_done < MaxInterrupts
    /\ n_done' = n_done + 1
    /\ dev' = virtio_config_change_notify(dev)
    /\ UNCHANGED <<ioVars, last_write, features_accepted, notifyVars, fnVars,
                   guest, blk, backend, thr, dma_rec>>

IrqNext ==
    \/ AckWrite
    \/ StatusRewrite
    \/ ConsumeDesc
    \/ ConfigChangeNotify

SpecIrq ==
    (\E kind \in {"block", "console"} : QueueInit(kind)) /\ [][IrqNext]_vars

\* C20: in every reachable state the device's IRQ line is high if and only
\* if int_status is not 0; a write of v to InterruptACK sets int_status to
\* int_status & ~v and lowers the IRQ exactly when the result is 0.
C20_IrqTracksIntStatus ==
    /\ (dev.irq = 1) <=> (dev.int_status # 0)
    /\ \A val \in AckVals :
          LET s == virtio_mmio_write(dev, VIRTIO_MMIO_INTERRUPT_ACK, val)
          IN  /\ s.int_status = BitAndNot(dev.int_status, val)
              /\ (s.irq = 0) <=> (s.int_status = 0)
              /\ (s.irq = 1) => dev.irq = 1

\* the driver acknowledged the used-ring interrupt while the configuration
\* interrupt is still pending: the line stays high
C20_Witness ==
    /\ last_write = [offset |-> VIRTIO_MMIO_INTERRUPT_ACK, val |-> 1]
    /\ dev.int_status = 2
    /\ dev.irq = 1
    /\ guest.used.idx # GuestAt(0).used.idx

(***************************************************************************)
(* The same operations with every load and store of int_status and every   *)
(* IRQ level write a step of its own: int_status is a plain uint32_t that  *)
(* the dispatcher thread (InterruptACK) and a device-side thread           *)
(* (virtio_consume_desc, virtio_config_change_notify) update without a     *)
(* lock.  The driver acknowledges the causes it read from InterruptStatus. *)
(***************************************************************************)
\* interrupts the device side raises in a run
MaxRaises == 3

\* the bits of an interrupt word
IsrBits(v) == {b \in {1, 2} : BitAnd(v, b) # 0}

\* a device-side thread enters virtio_consume_desc (bit 1: the used ring is
\* written first) or virtio_config_change_notify (bit 2)
RaiseBegin ==
    /\ isr.dev_pc = "idle"
    /\ isr.raises < MaxRaises
    /\ \E bit \in {1, 2} :
          /\ isr' = [isr EXCEPT !.dev_pc = "load", !.dev_bit = bit,
                                !.raises = @ + 1,
                                !.pending = @ \cup {bit}]
          /\ guest' = IF bit = 1
                      THEN virtio_consume_desc(dev, guest, 0, 0, 1).guest
                      ELSE guest
    /\ UNCHANGED <<fpga, chan, pump, regVars, notifyVars, fnVars,
                   blk, backend, thr, dma_rec, n_done>>

\* s->int_status |= bit as a load and a store, then set_irq(s->irq, 1)
RaiseStep ==
    /\ isr.dev_pc \in {"load", "store", "irq"}
    /\ IF isr.dev_pc = "load"
       THEN /\ isr' = [isr EXCEPT !.dev_pc = "store", !.dev_tmp = dev.int_status]
            /\ UNCHANGED dev
       ELSE IF isr.dev_pc = "store"
       THEN /\ dev' = [dev EXCEPT !.int_status = BitOr(isr.dev_tmp, isr.dev_bit)]
            /\ isr' = [isr EXCEPT !.dev_pc = "irq"]
       ELSE /\ dev' = [dev EXCEPT !.irq = 1]
            /\ isr' = [isr EXCEPT !.dev_pc = "idle"]
    /\ UNCHANGED <<fpga, chan, pump, last_write, features_accepted,
                   notifyVars, fnVars, queueVars>>

\* the driver's interrupt handler reads InterruptStatus (virtio_mmio_read)
\* and starts the write of what it read to InterruptACK
DriverReadIsr ==
    /\ isr.ack_pc = "idle"
    /\ dev.int_status # 0
    /\ isr' = [isr EXCEPT !.ack_pc = "load", !.val = dev.int_status]
    /\ UNCHANGED <<fpga, chan, pump, regVars, notifyVars, fnVars, queueVars>>

\* s->int_status &= ~val as a load and a store, then the test of
\* s->int_status, on the value just stored or on one loaded again, and
\* set_irq(s->irq, 0)
AckStep ==
    /\ isr.ack_pc \in {"load", "store", "test"}
    /\ IF isr.ack_pc = "load"
       THEN /\ isr' = [isr EXCEPT !.ack_pc = "store", !.ack_tmp = dev.int_status]
            /\ UNCHANGED <<dev, last_write>>
       ELSE IF isr.ack_pc = "store"
       THEN /\ dev' = [dev EXCEPT !.int_status = BitAndNot(isr.ack_tmp, isr.val)]
            /\ isr' = [isr EXCEPT !.ack_pc = "test",
                                  !.ack_tmp = BitAndNot(isr.ack_tmp, isr.val),
                                  !.pending = @ \ IsrBits(isr.val)]
            /\ UNCHANGED last_write
       ELSE \E again \in BOOLEAN :
               LET st == IF again THEN dev.int_status ELSE isr.ack_tmp
               IN  /\ dev' = [dev EXCEPT !.irq = IF st = 0 THEN 0 ELSE @]
                   /\ isr' = [isr EXCEPT !.ack_pc = "idle"]
                   /\ last_write' = [offset |-> VIRTIO_MMIO_INTERRUPT_ACK,
                                     val |-> isr.val]
    /\ UNCHANGED <<fpga, chan, pump, features_accepted,
                   notifyVars, fnVars, queueVars>>

IsrRaceNext ==
    \/ RaiseBegin
    \/ RaiseStep
    \/ DriverReadIsr
    \/ AckStep

SpecIsrRace ==
    (\E kind \in {"block", "console"} : QueueInit(kind))
    /\ [][IsrRaceNext]_vars

\* C21: under every interleaving of the loads, stores and IRQ level writes
\* of virtio_consume_desc / virtio_config_change_notify with those of
\* InterruptACK no interrupt is lost: when no access is in flight, no cause
\* that was raised and not acknowledged has its int_status bit clear while
\* the IRQ line is low.
C21_NoInterruptLost ==
    (isr.dev_pc = "idle" /\ isr.ack_pc = "idle") =>
        \A b \in isr.pending :
            ~(BitAnd(dev.int_status, b) = 0 /\ dev.irq = 0)

\* the step is a Status write of a value other than 0 (not a reset)
StatusWriteStep ==
    /\ last_write'.offset = VIRTIO_MMIO_STATUS
    /\ last_write'.val # 0

\* every bit of status is still set after the step
StatusBitsKept == BitAnd(dev.status, dev'.status) = dev.status

\* C22 (as stated): between two resets no Status write clears a status bit
\* that has been committed.
C22_StatusOnlyForward ==
    [][StatusWriteStep => StatusBitsKept]_vars

\* C22 (amended): the device commits the status as the driver writes it,
\* less FEATURES_OK when the negotiation fails; a Status write whose value
\* contains every bit of the current status clears none of them.
C22_ForwardWhenDriverKeepsBits ==
    [][(StatusWriteStep /\ BitAnd(last_write'.val, dev.status) = dev.status)
          => StatusBitsKept]_vars

\* the driver wrote ACK | DRIVER | FEATURES_OK on top of ACK | DRIVER, the
\* negotiation failed and ACK | DRIVER is still committed
C22_Witness ==
    /\ last_write = [offset |-> VIRTIO_MMIO_STATUS, val |-> 11]
    /\ dev.status = 3
    /\ ~features_accepted

(***************************************************************************)
(* The 9P device: virtio_9p_recv_request on one request chain.  The        *)
(* request bytes lie in the readable descriptors (mem maps a guest address *)
(* to its byte), the reply goes to the writable ones.                      *)
(***************************************************************************)
\* the chain-level part of a device after the driver's setup, with queue 0
\* empty and the descriptor table one of `tables`
ChainSetup(kind, tables) ==
    /\ dev = ApplyWrites(virtio_init(kind), DriverSetup)
    /\ guest = GuestAt(0)
    /\ last_write = NoWrite
    /\ features_accepted = TRUE
    /\ NotifyIdle
    /\ IoIdle
    /\ desc_table \in tables
    /\ call = <<>>
    /\ result = <<>>
    /\ blk = [req_in_progress |-> FALSE, req |-> NoRequest]
    /\ backend = 0
    /\ thr = [t \in Threads |-> IdleThread]
    /\ dma_rec = [t \in Threads |-> <<>>]
    /\ n_done = 0

P9_EPROTO == 71

get_le16(buf) == buf[1] + 256 * buf[2]

get_le32(buf) == <<buf[3] + 256 * buf[4], buf[1] + 256 * buf[2]>>

put_le16(v) == <<v % 256, v \div 256>>

put_le32(w) == put_le16(w[2]) \o put_le16(w[1])

\* what a memcpy_from_queue with outcome r leaves: [ret, buf]
read_result(r, mem) ==
    [ret |-> IF r.returns /\ ~r.undefined THEN r.ret ELSE -1,
     buf |-> [k \in 1 .. Len(r.copies) |-> mem[r.copies[k][1]]]]

\* memcpy_from_queue into buf: [ret, buf]
read_from_queue(table, mem, desc_idx, offset, count) ==
    read_result(memcpy_from_queue(table, desc_idx, offset, count), mem)

\* marshall for the formats "w" and "s": the bytes put in buf
RECURSIVE marshall(_, _)
marshall(fmt, args) ==
    IF fmt = <<>> THEN <<>>
    ELSE (IF Head(fmt) = "w" THEN put_le32(Head(args))
          ELSE put_le16(Len(Head(args))) \o Head(args))
         \o marshall(Tail(fmt), Tail(args))

RECURSIVE unmarshall(_, _, _, _, _)

\* the bytes unmarshall reads first for the format character c
unmarshall_size(c) ==
    CASE c = "b" -> 1 [] c = "h" -> 2 [] c = "w" -> 4 [] c = "d" -> 8 [] c = "s" -> 2

\* the length an "s" announces in the two bytes read for it
unmarshall_len(c, head) ==
    IF c = "s" /\ head.ret = 0 THEN get_le16(head.buf) ELSE 0

\* one format character, given the bytes read for it (head), the string an
\* "s" announces (str) and the outcome of the rest of the format
unmarshall_item(c, offset, head, str, rest) ==
    IF head.ret # 0 \/ (c = "s" /\ str.ret # 0) \/ rest.ret # 0
    THEN [ret |-> -1, offset |-> offset, vals |-> <<>>]
    ELSE [ret |-> 0, offset |-> rest.offset,
          vals |-> <<CASE c = "h" -> get_le16(head.buf)
                       [] c = "w" -> get_le32(head.buf)
                       [] c = "s" -> str.buf
                       [] OTHER -> head.buf>> \o rest.vals]

\* the string of length len and the rest of the format, after head
unmarshall_tail(table, mem, desc_idx, offset, fmt, head, len) ==
    unmarshall_item(Head(fmt), offset, head,
                    read_from_queue(table, mem, desc_idx, offset + 2, len),
                    unmarshall(table, mem, desc_idx,
                               offset + unmarshall_size(Head(fmt)) + len, Tail(fmt)))

unmarshall_head(table, mem, desc_idx, offset, fmt, head) ==
    unmarshall_tail(table, mem, desc_idx, offset, fmt, head,
                    unmarshall_len(Head(fmt), head))

\* unmarshall: [ret, offset, vals]; *poffset is stored on success only
unmarshall(table, mem, desc_idx, offset, fmt) ==
    IF fmt = <<>> THEN [ret |-> 0, offset |-> offset, vals |-> <<>>]
    ELSE unmarshall_head(table, mem, desc_idx, offset, fmt,
                         read_from_queue(table, mem, desc_idx, offset,
                                         unmarshall_size(Head(fmt))))

\* the outcome of a 9P call: the device state p9 = [msize, fid_list,
\* req_in_progress], the bytes written to guest memory as <<address, byte>>
\* in order, and the device and rings after virtio_consume_desc
P9Outcome(ret, p9, writes, s, g) ==
    [ret |-> ret, p9 |-> p9, writes |-> writes, dev |-> s, guest |-> g]

\* virtio_9p_send_reply with the id stored as it was passed
virtio_9p_send_reply_plain_id(s, g, table, p9, desc_idx, id, tag, buf) ==
    LET len == Len(buf) + 7
        buf1 == put_le32(W32(len)) \o <<id % 256>> \o put_le16(tag) \o buf
        r == memcpy_to_queue(table, desc_idx, 0, len)
        c == virtio_consume_desc(s, g, 0, desc_idx, len)
    IN  P9Outcome(0, p9,
                  [k \in 1 .. Len(r.copies) |->
                      <<r.copies[k][1], buf1[r.copies[k][2] + 1]>>],
                  c.dev, c.guest)

virtio_9p_send_reply(s, g, table, p9, desc_idx, id, tag, buf) ==
    LET len == Len(buf) + 7
        buf1 == put_le32(W32(len)) \o <<(id + 1) % 256>> \o put_le16(tag) \o buf
        r == memcpy_to_queue(table, desc_idx, 0, len)
        c == virtio_consume_desc(s, g, 0, desc_idx, len)
    IN  P9Outcome(0, p9,
                  [k \in 1 .. Len(r.copies) |->
                      <<r.copies[k][1], buf1[r.copies[k][2] + 1]>>],
                  c.dev, c.guest)

\* virtio_9p_send_error: error is the uint32_t the int err converts to
virtio_9p_send_error(s, g, table, p9, desc_idx, tag, error) ==
    virtio_9p_send_reply(s, g, table, p9, desc_idx, 6, tag,
                         marshall(<<"w">>, <<Sub32(W32(0), error)>>))

\* "9P2000.L"
P9Version == <<57, 80, 50, 48, 48, 48, 46, 76>>

\* virtio_9p_recv_request for the operations version, flush and clunk; every
\* other id is answered as the default case answers it
virtio_9p_recv_request(s, g, table, mem, p9, queue_idx, desc_idx) ==
    LET header == read_from_queue(table, mem, desc_idx, 0, 7)
        id == header.buf[5]
        tag == IF header.ret # 0 THEN 0 ELSE get_le16(SubSeq(header.buf, 6, 7))
        err == Sub32(W32(0), W32(P9_EPROTO))
        protocol_error == virtio_9p_send_error(s, g, table, p9, desc_idx, tag, err)
        body(fmt) == unmarshall(table, mem, desc_idx, 7, fmt)
    IN  IF queue_idx # 0 THEN P9Outcome(0, p9, <<>>, s, g)
        ELSE IF p9.req_in_progress THEN P9Outcome(-1, p9, <<>>, s, g)
        ELSE IF header.ret # 0 THEN protocol_error
        ELSE IF id = 100
        THEN LET u == body(<<"w", "s">>)
                 msize == u.vals[1]
             IN  IF u.ret # 0 THEN protocol_error
                 ELSE virtio_9p_send_reply(s, g, table, [p9 EXCEPT !.msize = msize],
                                           desc_idx, id, tag,
                                           marshall(<<"w", "s">>, <<msize, P9Version>>))
        ELSE IF id = 108
        THEN IF body(<<"h">>).ret # 0 THEN protocol_error
             ELSE virtio_9p_send_reply(s, g, table, p9, desc_idx, id, tag, <<>>)
        ELSE IF id = 120
        THEN LET u == body(<<"w">>)
             IN  IF u.ret # 0 THEN protocol_error
                 ELSE virtio_9p_send_reply(s, g, table,
                                           [p9 EXCEPT !.fid_list = @ \ {u.vals[1]}],
                                           desc_idx, id, tag, <<>>)
        ELSE protocol_error

(***************************************************************************)
(* SpecP9: one request of id 100, 108, 120 or 7, its body cut after any    *)
(* number of bytes, in one or two readable descriptors, with a writable    *)
(* descriptor of 4, 11 or 32 bytes for the reply.                          *)
(***************************************************************************)
\* the longest request body (version: msize, the length and two characters)
MaxBody == 8

P9Ids == {100, 108, 120, 7}

P9Tags == {1, 513}

\* the body the driver means to send for the operation
P9Body(id) ==
    CASE id = 100 -> put_le32(W32(4096)) \o put_le16(2) \o <<97, 98>>
      [] id = 108 -> put_le16(3)
      [] id = 120 -> put_le32(W32(1))
      [] OTHER -> <<>>

\* readable descriptors 0 (first bytes) and 1 (the rest, when there is
\* one), writable descriptor 2; descriptor i lies at guest address 64 * i
P9Table(first, read_size, room) ==
    [i \in DescIdx |->
        CASE i = 0 -> [addr |-> 0, len |-> W32(first), flags |-> VRING_DESC_F_NEXT,
                       next |-> IF first < read_size THEN 1 ELSE 2]
          [] i = 1 -> [addr |-> 64, len |-> W32(read_size - first),
                       flags |-> VRING_DESC_F_NEXT, next |-> 2]
          [] OTHER -> [addr |-> 128, len |-> W32(room), flags |-> VRING_DESC_F_WRITE,
                       next |-> 0]]

P9Tables ==
    {P9Table(first, 7 + cut, room) :
        first \in {5}, cut \in 0 .. MaxBody, room \in {4, 11, 32}}
    \cup {P9Table(7 + cut, 7 + cut, room) : cut \in 0 .. MaxBody, room \in {4, 11, 32}}

P9Init == ChainSetup("9p", P9Tables)

\* the bytes of the readable descriptors: the message, cut or padded with
\* zero bytes to their total length
P9Mem(table, msg) ==
    LET first == IntOf(table[0].len)
        byte(n) == IF n < Len(msg) THEN msg[n + 1] ELSE 0
    IN  [a \in (0 .. (first - 1)) \cup
               (IF table[0].next = 1 THEN 64 .. (63 + IntOf(table[1].len)) ELSE {}) |->
            IF a < 64 THEN byte(a) ELSE byte(first + (a - 64))]

CallP9Request ==
    /\ call = <<>>
    /\ \E id \in P9Ids, tag \in P9Tags, has_fid \in BOOLEAN, queue_idx \in {0, 1} :
          LET msg == put_le32(W32(7 + Len(P9Body(id)))) \o <<id>> \o put_le16(tag)
                         \o P9Body(id)
              mem == P9Mem(desc_table, msg)
              p9 == [msize |-> W32(8192),
                     fid_list |-> IF has_fid THEN {W32(1)} ELSE {},
                     req_in_progress |-> FALSE]
              r == virtio_9p_recv_request(dev, guest, desc_table, mem, p9,
                                          queue_idx, 0)
          IN  /\ call' = <<[fn |-> "virtio_9p_recv_request", queue_idx |-> queue_idx,
                            id |-> id, tag |-> tag, p9 |-> p9]>>
              /\ result' = <<[ret |-> r.ret, p9 |-> r.p9, writes |-> r.writes]>>
              /\ dev' = r.dev
              /\ guest' = r.guest
    /\ UNCHANGED <<ioVars, last_write, features_accepted, notifyVars, desc_table,
                   blk, backend, thr, dma_rec, n_done>>

P9Next == CallP9Request

SpecP9 == P9Init /\ [][P9Next]_vars

\* the bytes the readable descriptors of the chain at descriptor 0 hold
P9ReadSize ==
    IntOf(desc_table[0].len)
        + (IF desc_table[0].next = 1 THEN IntOf(desc_table[1].len) ELSE 0)

\* a request of a supported operation was served whose body is shorter
\* than the operation's format requires
P9Truncated ==
    /\ call # <<>>
    /\ call[1].fn = "virtio_9p_recv_request"
    /\ call[1].queue_idx = 0
    /\ call[1].id \in {100, 108, 120}
    /\ P9ReadSize - 7 < Len(P9Body(call[1].id))

\* an 11-byte error reply
P9ErrorReply(id_byte, tag, code) ==
    put_le32(W32(11)) \o <<id_byte>> \o put_le16(tag) \o put_le32(code)

\* the reply bytes lie at the start of the writable descriptor, as many as
\* it holds
P9ReplyWritten(reply) ==
    LET room == IntOf(desc_table[2].len)
        n == IF room < Len(reply) THEN room ELSE Len(reply)
    IN  result[1].writes = [k \in 1 .. n |-> <<desc_table[2].addr + (k - 1), reply[k]>>]

\* one used element {id = 0, len = 11} was published
P9OneErrorElement ==
    /\ guest.used.idx = 1
    /\ guest.used.ring[0] = [id |-> 0, len |-> 11]

SECTOR_SIZE == 512

\* the quotient of C's int division by a positive divisor
CDiv(a, b) == IF a >= 0 THEN a \div b ELSE -((-a) \div b)

\* writable bytes of the chain, and the sectors the header names
ReadRooms == {1, 512, 513, 1025}

ReadSectors == {0, 1}

\* byte k of the data the backend stores in buf for the seed it was given
Payload(seed, k) == (seed + 3 * k) % 256

\* buf after read_async: nsectors sectors of payload when the read did not
\* fail, the rest of the malloc'ed bytes as they were (junk)
ReadBuf(write_size, nsectors, ret, seed, junk) ==
    [k \in 1 .. write_size |->
        IF ret >= 0 /\ k <= nsectors * SECTOR_SIZE THEN Payload(seed, k - 1) ELSE junk]

\* virtio_block_req_end, case VIRTIO_BLK_T_IN, with the status stored in
\* the first byte of buf
BlockReqEndWritesStatusFirst(table, req, ret) ==
    LET status == IF ret < 0 THEN VIRTIO_BLK_S_IOERR ELSE VIRTIO_BLK_S_OK
        buf == [req.buf EXCEPT ![1] = status]
        reply == memcpy_to_queue(table, req.desc_idx, 0, req.write_size)
    IN  [k \in 1 .. Len(reply.copies) |->
            <<reply.copies[k][1], buf[reply.copies[k][2] + 1]>>]

\* virtio_block_req_end, case VIRTIO_BLK_T_IN: the bytes memcpy_to_queue
\* stores in guest memory, as <<address, byte>> in order
BlockReqEndWrites(table, req, ret) ==
    LET status == IF ret < 0 THEN VIRTIO_BLK_S_IOERR ELSE VIRTIO_BLK_S_OK
        buf == [req.buf EXCEPT ![req.write_size] = status]
        reply == memcpy_to_queue(table, req.desc_idx, 0, req.write_size)
    IN  [k \in 1 .. Len(reply.copies) |->
            <<reply.copies[k][1], buf[reply.copies[k][2] + 1]>>]

\* the header at guest address 0: type, ioprio, sector_num
BlockHeaderBytes(type, sector) ==
    put_le32(W32(type)) \o put_le32(W32(0)) \o put_le32(W32(sector)) \o put_le32(W32(0))

BlockReadInit ==
    /\ \E room \in ReadRooms, split \in BOOLEAN, sector \in ReadSectors,
          base \in {0, U16 - 1} :
          /\ split => room > 1
          /\ dev = [ApplyWrites(virtio_init("block"), DriverSetup) EXCEPT
                       !.queue[0].last_avail_idx = base,
                       !.queue[0].avail_idx = base]
          /\ guest = [GuestAt(base) EXCEPT
                         !.avail.idx = (base + 1) % U16,
                         !.avail.ring[BitAnd(base, RingSetup.num - 1)] = 0,
                         !.hdr = (0 :> sector)]
          /\ desc_table =
                [i \in DescIdx |->
                    CASE i = 0 -> [addr |-> 0, len |-> W32(BlockHeaderSize),
                                   flags |-> VRING_DESC_F_NEXT, next |-> 1]
                      [] i = 1 -> [addr |-> 1024,
                                   len |-> W32(IF split THEN room - 1 ELSE room),
                                   flags |-> IF split
                                             THEN VRING_DESC_F_WRITE + VRING_DESC_F_NEXT
                                             ELSE VRING_DESC_F_WRITE,
                                   next |-> 2]
                      [] OTHER -> IF split
                                  THEN [addr |-> 4096, len |-> W32(1),
                                        flags |-> VRING_DESC_F_WRITE, next |-> 0]
                                  ELSE ZeroDesc]
    /\ last_write = NoWrite
    /\ features_accepted = TRUE
    /\ NotifyIdle
    /\ IoIdle
    /\ call = <<>>
    /\ result = <<>>
    /\ blk = [req_in_progress |-> FALSE, req |-> NoRequest]
    /\ backend = 0
    /\ thr = [t \in Threads |-> IdleThread]
    /\ dma_rec = [t \in Threads |-> <<>>]
    /\ n_done = 0

\* queue_notify of queue 0 with one chain available: get_desc_rw_size,
\* virtio_block_recv_request (case VIRTIO_BLK_T_IN), last_avail_idx++
BlockReadNotify ==
    /\ call = <<>>
    /\ AvailIdxAt(dev, 0) # dev.queue[0].last_avail_idx
    /\ ~blk.req_in_progress
    /\ \E ret \in BackendReturns, seed \in {0, 7}, junk \in {170, 255} :
          LET desc_idx == AvailRingAt(dev, 0, BitAnd(dev.queue[0].last_avail_idx,
                                                     dev.queue[0].num - 1))
              size == get_desc_rw_size(desc_table, desc_idx)
              write_size == IntOf(size.write_size)
              mem == [a \in 0 .. (BlockHeaderSize - 1) |->
                         BlockHeaderBytes(0, guest.hdr[0])[a + 1]]
              h == read_from_queue(desc_table, mem, desc_idx, 0, BlockHeaderSize)
              sector_num == <<get_le32(SubSeq(h.buf, 13, 16)),
                              get_le32(SubSeq(h.buf, 9, 12))>>
              nsectors == CDiv(write_size - 1, SECTOR_SIZE)
              req == [type |-> "IN", write_size |-> write_size, queue_idx |-> 0,
                      desc_idx |-> desc_idx,
                      buf |-> ReadBuf(write_size, nsectors, ret, seed, junk)]
              c == virtio_consume_desc(dev, guest, 0, desc_idx, write_size)
              after == IF ret > 0 THEN dev ELSE c.dev
          IN  /\ size.returns /\ size.ret = 0 /\ h.ret = 0
              /\ get_le32(SubSeq(h.buf, 1, 4)) = W32(0)
              /\ call' = <<[fn |-> "read_async", sector_num |-> sector_num,
                            nsectors |-> nsectors, ret |-> ret, seed |-> seed]>>
              /\ blk' = [req_in_progress |-> ret > 0, req |-> req]
              /\ backend' = IF ret > 0 THEN 1 ELSE 0
              /\ result' = IF ret > 0 THEN <<>>
                           ELSE <<BlockReqEndWrites(desc_table, req, ret)>>
              /\ guest' = IF ret > 0 THEN guest ELSE c.guest
              /\ n_done' = IF ret > 0 THEN n_done ELSE n_done + 1
              /\ dev' = [after EXCEPT !.queue[0].avail_idx = AvailIdxAt(dev, 0),
                                      !.queue[0].last_avail_idx = (@ + 1) % U16]
    /\ UNCHANGED <<ioVars, last_write, features_accepted, notifyVars, desc_table,
                   thr, dma_rec>>

\* virtio_block_req_cb: virtio_block_req_end, req_in_progress = FALSE, and
\* queue_notify, which finds no further chain
BlockReadCallback ==
    /\ backend = 1
    /\ \E cb_ret \in CallbackReturns :
          LET req == IF cb_ret < 0
                     THEN [blk.req EXCEPT !.buf = ReadBuf(blk.req.write_size, 0, cb_ret, 0,
                                                          blk.req.buf[blk.req.write_size])]
                     ELSE blk.req
              c == virtio_consume_desc(dev, guest, 0, req.desc_idx, req.write_size)
          IN  /\ result' = <<BlockReqEndWrites(desc_table, req, cb_ret)>>
              /\ call' = <<[call[1] EXCEPT !.ret = cb_ret]>>
              /\ dev' = [c.dev EXCEPT !.queue[0].avail_idx = AvailIdxAt(dev, 0)]
              /\ guest' = c.guest
              /\ AvailIdxAt(dev, 0) = dev.queue[0].last_avail_idx
    /\ blk' = [blk EXCEPT !.req_in_progress = FALSE]
    /\ backend' = 0
    /\ n_done' = n_done + 1
    /\ UNCHANGED <<ioVars, last_write, features_accepted, notifyVars, desc_table,
                   thr, dma_rec>>

BlockReadNext == BlockReadNotify \/ BlockReadCallback

SpecBlockRead == BlockReadInit /\ [][BlockReadNext]_vars

\* the scenario's chain: header {type 0, sector 0}, 513 writable bytes B
ReadScenario ==
    /\ call # <<>>
    /\ call[1].fn = "read_async"
    /\ guest.hdr[0] = 0
    /\ IntOf(get_desc_rw_size(desc_table, 0).write_size) = 513

\* the guest address of byte n of B
BAddr(n) ==
    IF n < IntOf(desc_table[1].len) THEN desc_table[1].addr + n
    ELSE desc_table[2].addr + (n - IntOf(desc_table[1].len))

\* B[0..512) holds the backend's payload, B[512] the status OK, every byte
\* stored once; the used ring holds {id 0, len 513} and used.idx is one past
\* the index the request was published at
ReadCompleted ==
    /\ result = <<[k \in 1 .. 513 |->
                     <<BAddr(k - 1),
                       IF k <= 512 THEN Payload(call[1].seed, k - 1)
                       ELSE VIRTIO_BLK_S_OK>>]>>
    /\ guest.used.idx = dev.queue[0].last_avail_idx
    /\ guest.used.ring[BitAnd(guest.used.idx - 1 + U16, RingSetup.num - 1)] =
           [id |-> 0, len |-> 513]

EntropyBufSize == 256

EntropyLens == {W32(1), W32(256), W32(300), <<65535, 65535>>}

EntropyOutcome(undefined, chunks, writes, s, g) ==
    [undefined |-> undefined, chunks |-> chunks, writes |-> writes,
     dev |-> s, guest |-> g]

\* the while loop: getrandom fills all of block_size (at most 256 bytes);
\* chunks lists the sizes passed to memcpy_to_queue and writes the pairs
\* <<guest address, linear offset>> of the bytes stored, in order.
\* undefined = a negative length reached virtio_memcpy_to_ram: the copy runs
\* past buf, and the call may or may not come back to virtio_consume_desc
RECURSIVE entropy_fill(_, _, _, _, _, _)
entropy_fill(table, desc_idx, write_size, offset, chunks, writes) ==
    IF ~(offset < write_size)
    THEN [undefined |-> FALSE, chunks |-> chunks, writes |-> writes]
    ELSE LET block_size == min_int(EntropyBufSize, write_size - offset)
             ret == block_size
             r == memcpy_to_queue(table, desc_idx, offset, ret)
             stored == [k \in 1 .. Len(r.copies) |->
                           <<r.copies[k][1], offset + r.copies[k][2]>>]
         IN  IF r.undefined \/ ~r.returns
             THEN [undefined |-> TRUE, chunks |-> Append(chunks, ret),
                   writes |-> writes \o stored]
             ELSE entropy_fill(table, desc_idx, write_size, offset + ret,
                               Append(chunks, ret), writes \o stored)

\* virtio_entropy_recv_request; write_size is the int (a 32-bit word) that
\* get_desc_rw_size stored
virtio_entropy_recv_request(s, g, table, queue_idx, desc_idx, write_size) ==
    LET fill == entropy_fill(table, desc_idx,
                             IF IsNegative(write_size) THEN -1 ELSE IntOf(write_size),
                             0, <<>>, <<>>)
        c == virtio_consume_desc(s, g, queue_idx, desc_idx, write_size)
    IN  IF queue_idx # 0 THEN EntropyOutcome(FALSE, <<>>, <<>>, s, g)
        ELSE EntropyOutcome(fill.undefined, fill.chunks, fill.writes, c.dev, c.guest)

EntropyTables ==
    {[i \in DescIdx |->
         IF i < n
         THEN [addr |-> 1024 * i, len |-> lens[i],
               flags |-> (IF i = 0 /\ ~first_writable THEN 0 ELSE VRING_DESC_F_WRITE)
                         + (IF i + 1 < n THEN VRING_DESC_F_NEXT ELSE 0),
               next |-> (i + 1) % MaxDesc]
         ELSE ZeroDesc] :
        n \in 1 .. MaxDesc, lens \in [DescIdx -> EntropyLens],
        first_writable \in BOOLEAN}

EntropyInit == ChainSetup("entropy", EntropyTables)

\* queue_notify hands the chain at descriptor 0 to the device
CallEntropyRequest ==
    /\ call = <<>>
    /\ \E queue_idx \in {0, 1} :
          LET size == get_desc_rw_size(desc_table, 0)
              r == virtio_entropy_recv_request(dev, guest, desc_table, queue_idx, 0,
                                               size.write_size)
          IN  /\ size.returns /\ size.ret = 0
              /\ call' = <<[fn |-> "virtio_entropy_recv_request",
                            queue_idx |-> queue_idx, desc_idx |-> 0,
                            write_size |-> size.write_size]>>
              /\ result' = <<[undefined |-> r.undefined, chunks |-> r.chunks,
                              writes |-> r.writes]>>
              /\ \E survives \in BOOLEAN :
                    /\ ~r.undefined => survives
                    /\ dev' = IF survives THEN r.dev ELSE dev
                    /\ guest' = IF survives THEN r.guest ELSE guest
    /\ UNCHANGED <<ioVars, last_write, features_accepted, notifyVars, desc_table,
                   blk, backend, thr, dma_rec, n_done>>

EntropyNext == CallEntropyRequest

SpecEntropy == EntropyInit /\ [][EntropyNext]_vars

\* a chain was offered on queue 0 of the entropy device
EntropyServed ==
    /\ call # <<>>
    /\ call[1].fn = "virtio_entropy_recv_request"
    /\ call[1].queue_idx = 0

\* every byte of linear offsets 0 .. write_size - 1 of the writable region
\* was stored exactly once, in order, in chunks of at most 256 bytes, then
\* one used element {id = desc_idx, len = write_size} was published with
\* int_status bit 0 and the IRQ
EntropyFilled ==
    LET r == result[1]
        a == call[1]
        n == IF IsNegative(a.write_size) THEN 0 ELSE IntOf(a.write_size)
        path == ChainPath(desc_table, a.desc_idx, <<>>).path
    IN  /\ ~r.undefined
        /\ r.writes = [k \in 1 .. n |->
                          <<LinearAddr(desc_table, path, TRUE, k - 1), k - 1>>]
        /\ \A i \in 1 .. Len(r.chunks) : r.chunks[i] \in 1 .. EntropyBufSize
        /\ guest.used.idx = 1
        /\ guest.used.ring[0] = [id |-> a.desc_idx, len |-> a.write_size]
        /\ BitAnd(dev.int_status, 1) = 1
        /\ dev.irq = 1

\* C25: for every chain offered on queue 0 of the entropy device with
\* writable size write_size, the device writes every byte of linear offsets
\* 0 .. write_size - 1 of the writable region exactly once, in contiguous
\* chunks of at most 256 bytes, then publishes one used element {id =
\* desc_idx, len = write_size}, sets int_status bit 0 and raises the IRQ.
C25_EntropyFill == EntropyServed => EntropyFilled

\* C25 restricted to chains whose descriptors are shorter than 2^31 bytes
C25_FillWhenLengthsFit ==
    (EntropyServed /\ \A i \in DescIdx : ~IsNegative(desc_table[i].len)) =>
        EntropyFilled

(***************************************************************************)
(* SpecIndirect: the two chain walks on every table of MaxDesc one-byte    *)
(* descriptors linked in a ring, with every combination of the flags NEXT, *)
(* WRITE and INDIRECT.                                                     *)
(***************************************************************************)
VRING_DESC_F_INDIRECT == 4

IndirectInit ==
    /\ \E f \in [DescIdx -> 0 .. 7] :
          desc_table = [i \in DescIdx |->
                           [addr |-> 4 * i, len |-> W32(1), flags |-> f[i],
                            next |-> (i + 1) % MaxDesc]]
    /\ call = <<>>
    /\ result = <<>>
    /\ RegIdle
    /\ NotifyIdle
    /\ IoIdle
    /\ QueueIdle

IndirectNext == CallGetDescRwSize \/ CallMemcpy

SpecIndirect == IndirectInit /\ [][IndirectNext]_vars

\* C26: whenever a chain walk (get_desc_rw_size or memcpy_to_from_queue)
\* encounters a descriptor with the INDIRECT flag set, here the head of the
\* chain, which every walk reads first, it returns a chain-walk error: the
\* chain is not passed to device_recv (get_desc_rw_size returns nonzero) and
\* no byte is copied to or from the descriptor's addr.
C26_IndirectRejected ==
    (/\ result # <<>>
     /\ result[1].returns
     /\ HasFlag(desc_table[call[1].desc_idx], VRING_DESC_F_INDIRECT)) =>
        /\ result[1].ret # 0
        /\ call[1].fn = "memcpy_to_from_queue" => result[1].copies = <<>>

(***************************************************************************)
(* SpecNetRx: virtio_net_write_packet as one call.  The driver has         *)
(* published none, one or two receive chains of the same shape (chain n in *)
(* descriptors 2n and 2n + 1), notifies queue 0, and sets or clears        *)
(* QueueReady; the network backend delivers packets of 1 or 60 bytes.      *)
(***************************************************************************)
\* packets the backend delivers in a run
MaxPackets == 2

PacketLens == {1, 60}

\* shapes of a receive chain: <<flags and len of its first descriptor, of
\* its second>>; "bad" has a readable descriptor after a writable one
RxShapes ==
    [large |-> <<[flags |-> 3, len |-> 12], [flags |-> 2, len |-> 1514]>>,
     exact |-> <<[flags |-> 3, len |-> 12], [flags |-> 2, len |-> 60]>>,
     small |-> <<[flags |-> 3, len |-> 12], [flags |-> 2, len |-> 16]>>,
     single |-> <<[flags |-> 2, len |-> 72], [flags |-> 0, len |-> 0]>>,
     readable |-> <<[flags |-> 1, len |-> 12], [flags |-> 2, len |-> 1514]>>,
     bad |-> <<[flags |-> 3, len |-> 100], [flags |-> 0, len |-> 16]>>]

RxTable(shape) ==
    [i \in 0 .. 3 |->
        [addr |-> 2048 * i, len |-> W32(RxShapes[shape][1 + (i % 2)].len),
         flags |-> RxShapes[shape][1 + (i % 2)].flags, next |-> i + 1]]

NetRxInit ==
    /\ \E shape \in DOMAIN RxShapes, base \in {0, U16 - 1}, published \in 0 .. 2 :
          /\ dev = [ApplyWrites(virtio_init("net"), DriverSetup) EXCEPT
                       !.queue[0].last_avail_idx = base,
                       !.queue[0].avail_idx = base]
          /\ guest = [GuestAt(base) EXCEPT
                         !.avail.idx = (base + published) % U16,
                         !.avail.ring[BitAnd(base, RingSetup.num - 1)] = 0,
                         !.avail.ring[BitAnd(base + 1, RingSetup.num - 1)] = 2]
          /\ desc_table = RxTable(shape)
    /\ last_write = NoWrite
    /\ features_accepted = TRUE
    /\ NotifyIdle
    /\ IoIdle
    /\ call = <<>>
    /\ result = <<>>
    /\ blk = [req_in_progress |-> FALSE, req |-> NoRequest]
    /\ backend = 0
    /\ thr = [t \in Threads |-> IdleThread]
    /\ dma_rec = [t \in Threads |-> <<>>]
    /\ n_done = 0

NetOutcome(writes, s, g) == [writes |-> writes, dev |-> s, guest |-> g]

\* the bytes a memcpy_to_queue(offset, buf, count) stores, as <<address,
\* byte>> in order
ScatterWrites(table, desc_idx, offset, buf) ==
    LET r == memcpy_to_queue(table, desc_idx, offset, Len(buf))
    IN  [k \in 1 .. Len(r.copies) |-> <<r.copies[k][1], buf[r.copies[k][2] + 1]>>]

\* virtio_net_write_packet without the test `len > write_size`
virtio_net_write_packet_any_size(s, g, table, buf) ==
    LET qs == s.queue[0]
        desc_idx == AvailRingAt(s, 0, BitAnd(qs.last_avail_idx, qs.num - 1))
        size == get_desc_rw_size(table, desc_idx)
        len == NetSizes.header_size + Len(buf)
        h == [k \in 1 .. NetSizes.header_size |-> 0]
        c == virtio_consume_desc(s, g, 0, desc_idx, len)
    IN  IF qs.ready = 0 THEN NetOutcome(<<>>, s, g)
        ELSE IF qs.last_avail_idx = qs.avail_idx THEN NetOutcome(<<>>, s, g)
        ELSE IF size.ret # 0 THEN NetOutcome(<<>>, s, g)
        ELSE NetOutcome(ScatterWrites(table, desc_idx, 0, h)
                            \o ScatterWrites(table, desc_idx, NetSizes.header_size, buf),
                        [c.dev EXCEPT !.queue[0].last_avail_idx = (@ + 1) % U16],
                        c.guest)

virtio_net_write_packet(s, g, table, buf) ==
    LET qs == s.queue[0]
        desc_idx == AvailRingAt(s, 0, BitAnd(qs.last_avail_idx, qs.num - 1))
        size == get_desc_rw_size(table, desc_idx)
        len == NetSizes.header_size + Len(buf)
        h == [k \in 1 .. NetSizes.header_size |-> 0]
        c == virtio_consume_desc(s, g, 0, desc_idx, len)
    IN  IF qs.ready = 0 THEN NetOutcome(<<>>, s, g)
        ELSE IF qs.last_avail_idx = qs.avail_idx THEN NetOutcome(<<>>, s, g)
        ELSE IF size.ret # 0 THEN NetOutcome(<<>>, s, g)
        ELSE IF IsNegative(size.write_size) \/ len > IntOf(size.write_size)
        THEN NetOutcome(<<>>, s, g)
        ELSE NetOutcome(ScatterWrites(table, desc_idx, 0, h)
                            \o ScatterWrites(table, desc_idx, NetSizes.header_size, buf),
                        [c.dev EXCEPT !.queue[0].last_avail_idx = (@ + 1) % U16],
                        c.guest)

\* the backend has a packet for the guest
CallNetWritePacket ==
    /\ n_done < MaxPackets
    /\ n_done' = n_done + 1
    /\ \E buf_len \in PacketLens, seed \in {0, 7} :
          LET buf == [k \in 1 .. buf_len |-> Payload(seed, k - 1)]
              r == virtio_net_write_packet(dev, guest, DescTableAt(dev, 0), buf)
          IN  /\ call' = <<[fn |-> "virtio_net_write_packet", buf |-> buf]>>
              /\ result' = <<r.writes>>
              /\ dev' = r.dev
              /\ guest' = r.guest
    /\ UNCHANGED <<ioVars, last_write, features_accepted, notifyVars, desc_table,
                   blk, backend, thr, dma_rec>>

\* queue_notify of queue 0, which has manual_recv set: the available index
\* is read and cached, no chain is delivered
NetQueueNotify ==
    /\ dev.queue[0].avail_idx # AvailIdxAt(dev, 0)
    /\ dev' = [dev EXCEPT !.queue[0].avail_idx = AvailIdxAt(dev, 0)]
    /\ dev.queue[0].manual_recv
    /\ UNCHANGED <<ioVars, last_write, features_accepted, notifyVars, fnVars,
                   queueVars>>

\* the driver writes QueueReady of queue 0
NetReadyWrite ==
    /\ dev.queue_sel = 0
    /\ \E val \in {0, 1} :
          /\ val # dev.queue[0].ready
          /\ MmioWrite(VIRTIO_MMIO_QUEUE_READY, val)

NetRxNext == CallNetWritePacket \/ NetQueueNotify \/ NetReadyWrite

SpecNetRx == NetRxInit /\ [][NetRxNext]_vars

\* a step that is a call of virtio_net_write_packet
NetWriteStep == n_done' = n_done + 1

\* the chain at last_avail_idx
NetHead ==
    AvailRingAt(dev, 0, BitAnd(dev.queue[0].last_avail_idx, dev.queue[0].num - 1))

\* queue 0 is ready, a chain is available, it is a readable run followed by
\* a writable run, and its writable bytes hold header and packet
NetCanDeliver(len) ==
    LET c == ChainPath(desc_table, NetHead, <<>>)
        room == SumLen(desc_table, c.path, TRUE)
    IN  /\ dev.queue[0].ready # 0
        /\ dev.queue[0].last_avail_idx # dev.queue[0].avail_idx
        /\ c.again = <<>>
        /\ IsSplit(desc_table, c.path)
        /\ room[1] * U16 + room[2] >= len

\* header_size zero bytes and then the packet lie at the start of the
\* chain's writable bytes, one used element {head, len} is published, the
\* interrupt is raised and last_avail_idx has advanced by one
NetDelivered(buf) ==
    LET len == NetSizes.header_size + Len(buf)
        path == ChainPath(desc_table, NetHead, <<>>).path
        slot == BitAnd(guest.used.idx, RingSetup.num - 1)
    IN  /\ result' = <<[k \in 1 .. len |->
                          <<LinearAddr(desc_table, path, TRUE, k - 1),
                            IF k <= NetSizes.header_size THEN 0
                            ELSE buf[k - NetSizes.header_size]>>]>>
        /\ guest' = [guest EXCEPT !.used.idx = (@ + 1) % U16,
                                  !.used.ring[slot] = [id |-> NetHead, len |-> len]]
        /\ dev' = [dev EXCEPT !.queue[0].last_avail_idx = (@ + 1) % U16,
                              !.int_status = BitOr(@, 1),
                              !.irq = 1]

\* nothing is written and the device is as it was
NetDropped ==
    /\ result' = <<<<>>>>
    /\ guest' = guest
    /\ dev' = dev

MaxDrainChains == 3

\* calls of queue_notify in a run
MaxDrainCalls == 4

DrainRingNum == 2 * RingSetup.num

DrainState(s, g, b, held, log) ==
    [dev |-> s, guest |-> g, blk |-> b, backend |-> held, log |-> log]

\* virtio_block_recv_request as the drain loop sees it: -1 while a request
\* is in progress; a read the backend holds (hold) sets req_in_progress;
\* every other request is completed with virtio_consume_desc before the
\* return of 0
block_recv_request(st, type, desc_idx, write_size, hold) ==
    LET req == [type |-> type, write_size |-> write_size, queue_idx |-> 0,
                desc_idx |-> desc_idx]
        c == virtio_consume_desc(st.dev, st.guest, 0, desc_idx,
                                 IF type \in {"IN", "FLUSH"} THEN write_size ELSE 1)
    IN  IF st.blk.req_in_progress THEN [ret |-> -1, st |-> st]
        ELSE IF type = "IN" /\ hold
        THEN [ret |-> 0,
              st |-> [st EXCEPT !.blk = [req_in_progress |-> TRUE, req |-> req],
                                !.backend = 1]]
        ELSE [ret |-> 0,
              st |-> [st EXCEPT !.blk.req = req, !.dev = c.dev, !.guest = c.guest]]

\* the while loop of queue_notify for queue 0
RECURSIVE queue_notify_loop(_, _, _, _, _)
queue_notify_loop(st, table, avail_idx, hold, call_no) ==
    LET qs == st.dev.queue[0]
        slot == BitAnd(qs.last_avail_idx, qs.num - 1)
        desc_idx == st.guest.avail.ring[slot]
        size == get_desc_rw_size(table, desc_idx)
        next(s) == [s EXCEPT !.dev.queue[0].last_avail_idx = (@ + 1) % U16]
        r == block_recv_request(st, st.guest.hdr[desc_idx], desc_idx,
                                IntOf(size.write_size), hold)
        offered == [r.st EXCEPT !.log = Append(@, [call |-> call_no,
                                                   desc_idx |-> desc_idx,
                                                   ret |-> r.ret])]
    IN  IF qs.last_avail_idx = avail_idx THEN st
        ELSE IF size.ret # 0
        THEN queue_notify_loop(next(st), table, avail_idx, hold, call_no)
        ELSE IF r.ret < 0 THEN offered
        ELSE queue_notify_loop(next(offered), table, avail_idx, hold, call_no)

\* queue_notify that steps past the chain device_recv refused
queue_notify_past_refused(st, table, hold, call_no) ==
    LET avail_idx == st.guest.avail.idx
        cached == [st EXCEPT !.dev.queue[0].avail_idx = avail_idx]
        after == queue_notify_loop(cached, table, avail_idx, hold, call_no)
    IN  IF after.dev.queue[0].last_avail_idx # avail_idx
        THEN [after EXCEPT !.dev.queue[0].last_avail_idx = (@ + 1) % U16]
        ELSE after

\* queue_notify for queue 0 of the block device (manual_recv is not set)
queue_notify(st, table, hold, call_no) ==
    LET avail_idx == st.guest.avail.idx
        cached == [st EXCEPT !.dev.queue[0].avail_idx = avail_idx]
    IN  queue_notify_loop(cached, table, avail_idx, hold, call_no)

DrainInit ==
    /\ \E base \in {0, U16 - 1} :
          /\ dev = [ApplyWrites(virtio_init("block"),
                                DriverSetup \o << <<VIRTIO_MMIO_QUEUE_NUM, DrainRingNum>> >>)
                    EXCEPT !.queue[0].last_avail_idx = base,
                           !.queue[0].avail_idx = base]
          /\ guest = GuestAt(base)
    /\ desc_table = [i \in 0 .. (2 * MaxDrainChains - 1) |-> ZeroDesc]
    /\ last_write = NoWrite
    /\ features_accepted = TRUE
    /\ NotifyIdle
    /\ IoIdle
    /\ call = <<>>
    /\ result = <<>>
    /\ blk = [req_in_progress |-> FALSE, req |-> NoRequest]
    /\ backend = 0
    /\ thr = [t \in Threads |-> IdleThread]
    /\ dma_rec = [t \in Threads |-> <<>>]
    /\ n_done = 0

\* the driver publishes a chain: a read, a flush or a chain that
\* get_desc_rw_size rejects; it keeps at most DrainRingNum chains in the
\* ring that the device has not yet returned
DrainPublish ==
    /\ Cardinality(DOMAIN guest.hdr) < MaxDrainChains
    /\ \E kind \in {"IN", "FLUSH", "BAD"} :
          LET head == 2 * Cardinality(DOMAIN guest.hdr)
              descs == ChainDescsOf(kind, head)
              slot == BitAnd(guest.avail.idx, DrainRingNum - 1)
          IN  /\ desc_table' = [desc_table EXCEPT ![head] = descs[1],
                                                  ![head + 1] = descs[2]]
              /\ guest' = [guest EXCEPT
                              !.hdr = (head :> kind) @@ @,
                              !.avail.ring[slot] = head,
                              !.avail.idx = (@ + 1) % U16]
    /\ UNCHANGED <<ioVars, regVars, notifyVars, call, result, blk, backend, thr,
                   dma_rec, n_done>>

\* the state after a call of queue_notify
DrainCall(st) ==
    /\ dev' = st.dev
    /\ guest' = st.guest
    /\ blk' = st.blk
    /\ backend' = st.backend
    /\ result' = st.log
    /\ n_done' = n_done + 1
    /\ UNCHANGED <<ioVars, last_write, features_accepted, notifyVars, desc_table, call,
                   thr, dma_rec>>

\* the NotifyWorker serves a notification of queue 0
DrainNotify ==
    /\ n_done < MaxDrainCalls
    /\ \E hold \in BOOLEAN :
          DrainCall(queue_notify(DrainState(dev, guest, blk, backend, result),
                                 desc_table, hold, n_done + 1))

\* virtio_block_req_cb: virtio_block_req_end, req_in_progress = FALSE,
\* queue_notify
DrainCallback ==
    /\ n_done < MaxDrainCalls
    /\ backend = 1
    /\ \E hold \in BOOLEAN :
          LET c == virtio_consume_desc(dev, guest, 0, blk.req.desc_idx,
                                       blk.req.write_size)
              st == DrainState(c.dev, c.guest, [blk EXCEPT !.req_in_progress = FALSE],
                               0, result)
          IN  DrainCall(queue_notify(st, desc_table, hold, n_done + 1))

DrainNext == DrainPublish \/ DrainNotify \/ DrainCallback

SpecDrain == DrainInit /\ [][DrainNext]_vars

\* chains the drain has passed: ring positions before last_avail_idx
DrainPassed ==
    (dev.queue[0].last_avail_idx
        - (guest.avail.idx - Cardinality(DOMAIN guest.hdr))) % U16

\* C28: when device_recv returns < 0 for the chain at last_avail_idx,
\* queue_notify stops at once, leaves last_avail_idx pointing at that chain
\* and delivers no later chain in that call; the next queue_notify of the
\* queue offers the same chain first, so chains are delivered to device_recv
\* in available-ring order without skipping a rejected one (the calls of
\* queue_notify follow one another).
C28_DrainStop ==
    LET log == result
        qs == dev.queue[0]
        accepted == SelectSeq(log, LAMBDA e : e.ret >= 0)
        good == {n \in 0 .. (DrainPassed - 1) : guest.hdr[2 * n] # "BAD"}
    IN  /\ \A i \in 1 .. Len(log) :
              log[i].ret < 0 =>
                 /\ \A j \in (i + 1) .. Len(log) : log[j].call # log[i].call
                 /\ i < Len(log) => log[i + 1].desc_idx = log[i].desc_idx
                 /\ i = Len(log) =>
                       /\ qs.last_avail_idx # guest.avail.idx
                       /\ guest.avail.ring[BitAnd(qs.last_avail_idx, qs.num - 1)]
                             = log[i].desc_idx
        /\ Len(accepted) = Cardinality(good)
        /\ \A i \in 1 .. Len(accepted) :
              /\ accepted[i].desc_idx \in {2 * n : n \in good}
              /\ i > 1 => accepted[i - 1].desc_idx < accepted[i].desc_idx

C28_Witness ==
    /\ Len(result) = 4
    /\ result[1].ret = 0
    /\ result[2].ret = -1
    /\ result[3].call # result[2].call
    /\ result[3].desc_idx = result[2].desc_idx
    /\ result[3].ret = 0
    /\ result[4].desc_idx = 4
    /\ dev.queue[0].last_avail_idx = 2
    /\ guest.avail.idx = 2

\* C29: every chain the driver publishes in the available ring is accepted
\* by device_recv at most once and completed in the used ring at most once,
\* under every interleaving of the NotifyWorker's queue_notify with the
\* queue_notify of a completion callback on the backend's thread: on a
\* block device the calls of virtio_consume_desc never outnumber the chains
\* published.
C29_AtMostOnceDelivery ==
    dev.kind = "block" => n_done <= Cardinality(DOMAIN guest.hdr)

\* C30: req_in_progress of a block device is TRUE exactly while a backend
\* request is outstanding: in every state in which every request the
\* backend took has had its completion callback run to its end (and no
\* thread is inside the queue engine), req_in_progress is FALSE, also when
\* the callback ran before read_async / write_async had returned its
\* positive result to virtio_block_recv_request.
C30_InProgressWhileOutstanding ==
    (/\ dev.kind = "block"
     /\ backend = 0
     /\ \A t \in Threads : thr[t].pc = "idle") => ~blk.req_in_progress


(***************************************************************************)
(* SpecRing: the available ring of a network device's receive queue over   *)
(* the life of a driver: chains published, QueueNotify (which caches       *)
(* avail_idx), packets delivered by virtio_net_write_packet, a write of 0  *)
(* to Status and the driver's set-up writes after it.  `result` holds the  *)
(* history [published, taken, resets, setup]: chains the driver has        *)
(* published and chains the device has taken since the last reset, the     *)
(* resets so far, and the next write of the driver's set-up sequence.      *)
(***************************************************************************)
\* chains the driver publishes between two resets
MaxRingChains == 2

\* writes of 0 to Status
MaxResets == 1

RingHistory(published, taken, resets, setup) ==
    [published |-> published, taken |-> taken, resets |-> resets, setup |-> setup]

RingInit ==
    /\ \E base \in {0, U16 - 1} :
          /\ dev = [ApplyWrites(virtio_init("net"), DriverSetup) EXCEPT
                       !.queue[0].last_avail_idx = base,
                       !.queue[0].avail_idx = base]
          /\ guest = GuestAt(base)
    /\ desc_table = RxTable("large")
    /\ last_write = NoWrite
    /\ features_accepted = TRUE
    /\ NotifyIdle
    /\ IoIdle
    /\ call = <<>>
    /\ result = <<RingHistory(0, 0, 0, Len(DriverSetup) + 1)>>
    /\ blk = [req_in_progress |-> FALSE, req |-> NoRequest]
    /\ backend = 0
    /\ thr = [t \in Threads |-> IdleThread]
    /\ dma_rec = [t \in Threads |-> <<>>]
    /\ n_done = 0

\* the driver puts a receive chain (head 0 or 2) in the available ring and
\* advances avail.idx
RingPublish ==
    /\ result[1].setup > Len(DriverSetup)
    /\ result[1].published < MaxRingChains
    /\ LET slot == BitAnd(guest.avail.idx, RingSetup.num - 1)
       IN  guest' = [guest EXCEPT !.avail.ring[slot] = 2 * result[1].published,
                                  !.avail.idx = (@ + 1) % U16]
    /\ result' = <<[result[1] EXCEPT !.published = @ + 1]>>
    /\ UNCHANGED <<ioVars, regVars, notifyVars, desc_table, call, blk, backend, thr,
                   dma_rec, n_done>>

\* the backend has a packet: virtio_net_write_packet (followed until the
\* device has taken one chain more than the driver can publish)
RingPacket ==
    /\ result[1].taken <= MaxRingChains
    /\ LET r == virtio_net_write_packet(dev, guest, DescTableAt(dev, 0),
                                        [k \in 1 .. 60 |-> 0])
       IN  /\ r.dev # dev
           /\ dev' = r.dev
           /\ guest' = r.guest
           /\ result' = <<[result[1] EXCEPT !.taken = @ + 1]>>
    /\ UNCHANGED <<ioVars, last_write, features_accepted, notifyVars, desc_table,
                   call, blk, backend, thr, dma_rec, n_done>>

\* the driver writes 0 to Status (virtio_reset) and starts its rings again
\* at index 0; the ring entries and descriptors keep what they held
RingReset ==
    /\ result[1].resets < MaxResets
    /\ dev' = virtio_mmio_write(dev, VIRTIO_MMIO_STATUS, 0)
    /\ last_write' = [offset |-> VIRTIO_MMIO_STATUS, val |-> 0]
    /\ features_accepted' = FALSE
    /\ guest' = [guest EXCEPT !.avail.idx = 0, !.used.idx = 0]
    /\ result' = <<RingHistory(0, 0, result[1].resets + 1, 1)>>
    /\ UNCHANGED <<ioVars, notifyVars, desc_table, call, blk, backend, thr, dma_rec,
                   n_done>>

\* the next write of the driver's initialisation sequence
RingSetupWrite ==
    /\ result[1].setup <= Len(DriverSetup)
    /\ LET w == DriverSetup[result[1].setup]
       IN  /\ dev' = virtio_mmio_write(dev, w[1], w[2])
           /\ last_write' = [offset |-> w[1], val |-> w[2]]
           /\ features_accepted' =
                 IF w[1] # VIRTIO_MMIO_STATUS THEN features_accepted
                 ELSE features_accepted
                          \/ (SettingFeaturesOk(dev, w[2]) /\ NegotiationOk(dev))
    /\ result' = <<[result[1] EXCEPT !.setup = @ + 1]>>
    /\ UNCHANGED <<ioVars, notifyVars, desc_table, call, queueVars>>

RingNext ==
    \/ RingPublish
    \/ NetQueueNotify
    \/ RingPacket
    \/ RingReset
    \/ RingSetupWrite

SpecRing == RingInit /\ [][RingNext]_vars

\* (cached avail_idx - last_avail_idx) mod 2^16 of queue 0
RingAhead == (dev.queue[0].avail_idx - dev.queue[0].last_avail_idx) % U16

\* C31: the device never takes more chains than the driver has published:
\* in every reachable state (cached avail_idx - last_avail_idx) mod 2^16 is
\* the number of chains published since the last reset that QueueNotify
\* has shown to the device and that it has not yet taken, so it never
\* exceeds the chains published since the last reset and not yet taken,
\* and the device has taken no more chains than were published; also after
\* a Status = 0 reset followed by QueueReady = 1.
C31_NeverMoreThanPublished ==
    /\ result[1].taken <= result[1].published
    /\ RingAhead <= result[1].published - result[1].taken


(***************************************************************************)
(* SpecConfig: the device configuration space.  `result` holds the device  *)
(* side, [size, space, has_config_write] (config_space_size, config_space  *)
(* and whether config_write is set), and `call` the last access made:      *)
(* [is_write, offset, size_log2, touched, val, called].                    *)
(***************************************************************************)
MAX_CONFIG_SPACE_SIZE == 256

\* config-space writes followed in a run
MaxConfigWrites == 2

\* lengths of the 9P mount tag
MountTagLens == {0, 1, 6}

\* config_space_size as the virtio_<kind>_init functions pass it
ConfigSpaceSize(kind, tag_len) ==
    CASE kind = "block" -> 16
      [] kind = "net" -> 8
      [] kind = "console" -> 4
      [] kind = "entropy" -> 0
      [] kind = "input" -> 256
      [] kind = "9p" -> 2 + tag_len

\* offsets of an access, relative to VIRTIO_MMIO_CONFIG
ConfigOffsets == {0, 1, 3, 5, 13, 16, 253, 256}

\* the bound test of virtio_config_read and virtio_config_write: the
\* operands are uint32_t, so config_space_size - 1 and - 3 wrap
config_in_bounds(size, offset, size_log2) ==
    Less32(W32(offset), Sub32(W32(size), W32(2 ^ size_log2 - 1)))

\* the bytes an access of 2^size_log2 bytes at offset covers
AccessBytes(offset, size_log2) == offset .. (offset + 2 ^ size_log2 - 1)

\* virtio_config_read: the bytes read and the value, low byte first; junk
\* is what a read past the end of config_space[] finds
virtio_config_read(cfg, offset, size_log2, junk) ==
    IF config_in_bounds(cfg.size, offset, size_log2)
    THEN [touched |-> AccessBytes(offset, size_log2),
          val |-> [k \in 1 .. 2 ^ size_log2 |->
                      IF offset + k - 1 < MAX_CONFIG_SPACE_SIZE
                      THEN cfg.space[offset + k - 1] ELSE junk]]
    ELSE [touched |-> {}, val |-> [k \in 1 .. 2 ^ size_log2 |-> 0]]

\* virtio_config_write: the configuration space after the write, the bytes
\* stored (those at 256 and beyond land past the end of config_space[]) and
\* whether config_write was called
virtio_config_write(cfg, offset, val, size_log2) ==
    IF config_in_bounds(cfg.size, offset, size_log2)
    THEN [cfg |-> [cfg EXCEPT !.space =
                      [k \in DOMAIN cfg.space |->
                          IF k \in AccessBytes(offset, size_log2)
                          THEN val[k - offset + 1] ELSE cfg.space[k]]],
          touched |-> AccessBytes(offset, size_log2),
          called |-> cfg.has_config_write]
    ELSE [cfg |-> cfg, touched |-> {}, called |-> FALSE]

ConfigInit ==
    /\ \E kind \in DeviceKinds, tag_len \in MountTagLens :
          /\ (kind # "9p" => tag_len = 0)
          /\ dev = ApplyWrites(virtio_init(kind), DriverSetup)
          /\ result = <<[size |-> ConfigSpaceSize(kind, tag_len),
                         space |-> [k \in 0 .. (MAX_CONFIG_SPACE_SIZE - 1) |->
                                       IF k < ConfigSpaceSize(kind, tag_len)
                                       THEN 1 + (k % 255) ELSE 0],
                         has_config_write |-> kind = "input"]>>
    /\ guest = GuestAt(0)
    /\ last_write = NoWrite
    /\ features_accepted = TRUE
    /\ NotifyIdle
    /\ IoIdle
    /\ desc_table = [i \in DescIdx |-> ZeroDesc]
    /\ call = <<>>
    /\ blk = [req_in_progress |-> FALSE, req |-> NoRequest]
    /\ backend = 0
    /\ thr = [t \in Threads |-> IdleThread]
    /\ dma_rec = [t \in Threads |-> <<>>]
    /\ n_done = 0

\* virtio_mmio_read at VIRTIO_MMIO_CONFIG + offset, after construction or
\* after a write
ConfigRead ==
    /\ IF call = <<>> THEN TRUE ELSE call[1].is_write
    /\ \E offset \in ConfigOffsets, size_log2 \in 0 .. 2, junk \in {0, 255} :
          LET r == virtio_config_read(result[1], offset, size_log2, junk)
          IN  call' = <<[is_write |-> FALSE, offset |-> VIRTIO_MMIO_CONFIG + offset,
                         size_log2 |-> size_log2, touched |-> r.touched,
                         val |-> r.val, called |-> FALSE]>>
    /\ UNCHANGED <<ioVars, regVars, notifyVars, desc_table, result, queueVars>>

\* virtio_mmio_write at VIRTIO_MMIO_CONFIG + offset
ConfigWrite ==
    /\ n_done < MaxConfigWrites
    /\ n_done' = n_done + 1
    /\ \E offset \in ConfigOffsets, size_log2 \in 0 .. 2 :
          LET val == [k \in 1 .. 2 ^ size_log2 |-> 160 + k]
              r == virtio_config_write(result[1], offset, val, size_log2)
          IN  /\ call' = <<[is_write |-> TRUE, offset |-> VIRTIO_MMIO_CONFIG + offset,
                            size_log2 |-> size_log2, touched |-> r.touched,
                            val |-> val, called |-> r.called]>>
              /\ result' = <<r.cfg>>
    /\ UNCHANGED <<ioVars, regVars, notifyVars, desc_table, guest, blk, backend,
                   thr, dma_rec>>

ConfigNext == ConfigRead \/ ConfigWrite

SpecConfig == ConfigInit /\ [][ConfigNext]_vars

\* C32: an MMIO read or write of 1, 2 or 4 bytes at offset >= 0x100
\* touches only bytes config_space[0 .. config_space_size - 1]; an access
\* any byte of which lies at or beyond config_space_size reads as 0, writes
\* nothing and does not invoke config_write.
C32_ConfigBounds ==
    call # <<>> =>
        LET a == call[1]
            beyond == \E b \in AccessBytes(a.offset - VIRTIO_MMIO_CONFIG, a.size_log2) :
                          b >= result[1].size
        IN  /\ a.touched \subseteq 0 .. (result[1].size - 1)
            /\ beyond => /\ a.touched = {}
                         /\ ~a.called
                         /\ (~a.is_write => \A k \in DOMAIN a.val : a.val[k] = 0)


\* C33: chain walks terminate: for every content of the descriptor table,
\* chains whose next links form a cycle included, get_desc_rw_size and
\* memcpy_to_from_queue return after finitely many descriptor fetches.
C33_ChainWalksTerminate ==
    result # <<>> => result[1].returns


\* the index both rings of SpecDrain started at
DrainBase == (guest.avail.idx - Cardinality(DOMAIN guest.hdr)) % U16

\* the heads of the used elements published so far
DrainUsedIds ==
    {guest.used.ring[BitAnd(DrainBase + k, DrainRingNum - 1)].id :
        k \in 0 .. (((guest.used.idx - DrainBase) % U16) - 1)}

\* a chain get_desc_rw_size fails for: a readable descriptor follows a
\* writable one
DrainMalformed(head) ==
    ~IsSplit(desc_table, ChainPath(desc_table, head, <<>>).path)

\* the malformed chains among those queue_notify has passed
DrainRejected ==
    {n \in 0 .. (DrainPassed - 1) : DrainMalformed(2 * n)}

\* after a call of queue_notify: no rejected chain was offered to
\* device_recv or put in the used ring, nothing but a completion has raised
\* the interrupt, and the call went on past every rejected chain: it ended
\* at the end of the ring or at a chain device_recv refused
DrainSkipped ==
    LET qs == dev.queue[0]
        head == guest.avail.ring[BitAnd(qs.last_avail_idx, qs.num - 1)]
    IN  /\ \A n \in DrainRejected :
              /\ \A i \in 1 .. Len(result) : result[i].desc_idx # 2 * n
              /\ 2 * n \notin DrainUsedIds
        /\ guest.used.idx = DrainBase => dev.int_status = 0 /\ dev.irq = 0
        /\ \/ qs.last_avail_idx = guest.avail.idx
           \/ /\ ~DrainMalformed(head)
              /\ result # <<>>
              /\ result[Len(result)] = [call |-> n_done, desc_idx |-> head, ret |-> -1]

RegQueueVals == {0, MAX_QUEUE - 1, MAX_QUEUE, 30}

RegNumVals == {0, 1, 4, 12}

\* the QueueNotify case of virtio_mmio_write without the test of val
queue_notify_write_any(pending, val) == BitOr(pending, 2 ^ val)

\* the QueueNotify case of virtio_mmio_write: async_queue_notify(s, val)
\* sets bit val of pending_queue_notify
queue_notify_write(pending, val) ==
    IF val < MAX_QUEUE THEN BitOr(pending, 2 ^ val) ELSE pending

RegsInit ==
    /\ \E kind \in {"block", "net"} : dev = virtio_init(kind)
    /\ last_write = NoWrite
    /\ features_accepted = FALSE
    /\ NotifyIdle
    /\ IoIdle
    /\ FnIdle
    /\ QueueIdle

\* a write to QueueSel, QueueNum or Status
RegsWrite ==
    \/ \E val \in RegQueueVals : MmioWrite(VIRTIO_MMIO_QUEUE_SEL, val)
    \/ \E val \in RegNumVals : MmioWrite(VIRTIO_MMIO_QUEUE_NUM, val)
    \/ \E val \in {0, VIRTIO_STAT_ACKNOWLEDGE} : MmioWrite(VIRTIO_MMIO_STATUS, val)

\* a write to QueueNotify: async_queue_notify when val < MAX_QUEUE
RegsNotifyWrite ==
    /\ \E val \in RegQueueVals :
          /\ pending_queue_notify' =
                [pending_queue_notify EXCEPT ![0] = queue_notify_write(@, val)]
          /\ pending_notify' =
                IF val < MAX_QUEUE THEN async_queue_notify_flag(pending_notify)
                ELSE pending_notify
          /\ last_write' = [offset |-> VIRTIO_MMIO_QUEUE_NOTIFY, val |-> val]
    /\ UNCHANGED <<ioVars, dev, features_accepted, pending_notify_stop, worker,
                   callers, unserved, stop_called, fnVars, queueVars>>

\* the worker's scan of device 0: the atomic exchange and queue_notify(s, j)
\* for every bit j < 32 set (the rings of the device are empty)
RegsWorkerScan ==
    /\ pending_notify # 0
    /\ pending_notify' = 0
    /\ pending_queue_notify' = [pending_queue_notify EXCEPT ![0] = 0]
    /\ call' = <<BitsFrom(pending_queue_notify[0], 0)>>
    /\ UNCHANGED <<ioVars, regVars, pending_notify_stop, worker, callers, unserved,
                   stop_called, desc_table, result, queueVars>>

RegsNext == RegsWrite \/ RegsNotifyWrite \/ RegsWorkerScan

SpecRegs == RegsInit /\ [][RegsNext]_vars

IsPowerOfTwo(n) == \E k \in 0 .. 30 : n = 2 ^ k

RegsValid ==
    /\ dev.queue_sel < MAX_QUEUE
    /\ \A q \in QueueIdx : IsPowerOfTwo(dev.queue[q].num)
    /\ pending_queue_notify[0] < 2 ^ MAX_QUEUE
    /\ call # <<>> => call[1] \subseteq QueueIdx

\* the write served in this step carried a value the register rejects
RegsInvalidWrite ==
    /\ last_write' # last_write
    /\ \/ last_write'.offset \in {VIRTIO_MMIO_QUEUE_SEL, VIRTIO_MMIO_QUEUE_NOTIFY}
             /\ last_write'.val >= MAX_QUEUE
       \/ last_write'.offset = VIRTIO_MMIO_QUEUE_NUM
             /\ ~IsPowerOfTwo(last_write'.val)

C36_Version1Advertised ==
    /\ VIRTIO_F_VERSION_1 \in dev.device_features
    /\ (/\ last_write.offset = VIRTIO_MMIO_STATUS
        /\ HasFeaturesOk(last_write.val)
        /\ dev.driver_features = dev.device_features) => HasFeaturesOk(dev.status)


\* ---------------------------------------------------------------------
\* A reset while work is pending: a block device serves one chain, and the
\* driver writes 0 to Status at a moment when no device code is running and
\* a notification is still pending or the backend still holds the request.
ResetPublish ==
    /\ DOMAIN guest.hdr = {}
    /\ GuestPublish

ResetWhilePending ==
    /\ dev.status # 0
    /\ \A t \in Threads : thr[t].pc = "idle"
    /\ pending_queue_notify[0] # 0 \/ backend > 0
    /\ WriteStatusZero

ResetPendingNext ==
    \/ ResetPublish
    \/ WriteQueueNotify
    \/ WorkerServe
    \/ CallbackStart
    \/ \E t \in Threads : EngineStep(t)
    \/ \E t \in Threads : BlockStep(t)
    \/ ResetWhilePending

\* a block device whose driver resets it once while work is pending
SpecResetPending == QueueInit("block") /\ [][ResetPendingNext]_vars

\* the driver's last register write is the write of 0 to Status: the device
\* has been reset and QueueNotify has not been written since
ResetAndNoNotifySince ==
    last_write = [offset |-> VIRTIO_MMIO_STATUS, val |-> 0]

\* thread t accesses guest memory in this step: the read of avail.idx at the
\* start of queue_notify, or a write of payload or of the used ring
DmaAccess(t) ==
    \/ thr[t].pc = "qn_start" /\ thr'[t].pc # "qn_start"
    \/ /\ Len(dma_rec'[t]) > Len(dma_rec[t])
       /\ dma_rec'[t][Len(dma_rec'[t])] # "irq"

\* thread t raises the interrupt in this step
RaisesIrq(t) ==
    /\ Len(dma_rec'[t]) > Len(dma_rec[t])
    /\ dma_rec'[t][Len(dma_rec'[t])] = "irq"

\* C37: after the driver writes 0 to Status, and until it next writes
\* QueueNotify, the device performs no DMA access to guest memory and raises
\* no IRQ, even if a notification bit was still pending or a block request
\* was still outstanding at the time of the reset.
C37_QuietAfterReset ==
    [][(ResetAndNoNotifySince /\ last_write' = last_write) =>
          \A t \in Threads : ~DmaAccess(t) /\ ~RaisesIrq(t)]_vars

\* C38: for every completion published by a backend (here a 9P reply), the
\* len stored in the used element does not exceed the total size of the
\* chain's writable descriptors, and every byte counted by len was written to
\* the chain.
C38_UsedLenWithinWritable ==
    (/\ call # <<>>
     /\ call[1].fn = "virtio_9p_recv_request"
     /\ call[1].queue_idx = 0
     /\ guest.used.idx = 1) =>
        /\ guest.used.ring[0].len <= IntOf(desc_table[2].len)
        /\ guest.used.ring[0].len <= Len(result[1].writes)

(***************************************************************************)
(* SpecLane: the dispatcher in front of a virtio MMIO device.  The guest   *)
(* writes 64-bit bus words to registers of the range and reads them back;  *)
(* write_func is virtio_mmio_write and read_func is virtio_mmio_read.      *)
(***************************************************************************)
VIRTIO_MMIO_MAGIC_VALUE == 0
VIRTIO_MMIO_VERSION == 4
VIRTIO_MMIO_DEVICE_ID == 8
VIRTIO_MMIO_VENDOR_ID == 12
VIRTIO_MMIO_DEVICE_FEATURES == 16
VIRTIO_MMIO_QUEUE_NUM_MAX == 52
VIRTIO_MMIO_INTERRUPT_STATUS == 96

\* the 32-bit window sel of a feature set, as a number
FeatureWindow(features, sel) ==
    LET bits == {b - 32 * sel : b \in {x \in features : x \div 32 = sel}}
        add(b, acc) == acc + 2 ^ b
        RECURSIVE sum(_)
        sum(bs) == IF bs = {} THEN 0
                   ELSE LET b == CHOOSE x \in bs : TRUE
                        IN  add(b, sum(bs \ {b}))
    IN  sum(bits)

\* virtio_mmio_read with size_log2 = 2 below the configuration space
virtio_mmio_read(s, offset) ==
    CASE offset = VIRTIO_MMIO_MAGIC_VALUE -> 1953655158
      [] offset = VIRTIO_MMIO_VERSION -> 2
      [] offset = VIRTIO_MMIO_DEVICE_ID -> s.device_id
      [] offset = VIRTIO_MMIO_VENDOR_ID -> 65535
      [] offset = VIRTIO_MMIO_DEVICE_FEATURES ->
           IF s.device_features_sel \in {0, 1}
           THEN FeatureWindow(s.device_features, s.device_features_sel)
           ELSE 0
      [] offset = VIRTIO_MMIO_DEVICE_FEATURES_SEL -> s.device_features_sel
      [] offset = VIRTIO_MMIO_QUEUE_SEL -> s.queue_sel
      [] offset = VIRTIO_MMIO_QUEUE_NUM_MAX -> MAX_QUEUE_NUM
      [] offset = VIRTIO_MMIO_QUEUE_NUM -> s.queue[s.queue_sel].num
      [] offset = VIRTIO_MMIO_QUEUE_DESC_LOW -> s.queue[s.queue_sel].desc_addr[2]
      [] offset = VIRTIO_MMIO_QUEUE_AVAIL_LOW -> s.queue[s.queue_sel].avail_addr[2]
      [] offset = VIRTIO_MMIO_QUEUE_USED_LOW -> s.queue[s.queue_sel].used_addr[2]
      [] offset = VIRTIO_MMIO_QUEUE_DESC_HIGH -> s.queue[s.queue_sel].desc_addr[1]
      [] offset = VIRTIO_MMIO_QUEUE_AVAIL_HIGH -> s.queue[s.queue_sel].avail_addr[1]
      [] offset = VIRTIO_MMIO_QUEUE_USED_HIGH -> s.queue[s.queue_sel].used_addr[1]
      [] offset = VIRTIO_MMIO_QUEUE_READY -> s.queue[s.queue_sel].ready
      [] offset = VIRTIO_MMIO_INTERRUPT_STATUS -> s.int_status
      [] offset = VIRTIO_MMIO_STATUS -> s.status
      [] OTHER -> 0

\* requests the dispatcher serves in a run of SpecLane
MaxLaneRequests == 3

\* read/write registers: DeviceFeaturesSel, QueueReady, QueueDescHigh and
\* QueueUsedHigh have address bit 2 set, QueueDescLow and QueueUsedLow clear
LaneOffsets ==
    {VIRTIO_MMIO_DEVICE_FEATURES_SEL, VIRTIO_MMIO_QUEUE_READY,
     VIRTIO_MMIO_QUEUE_DESC_HIGH, VIRTIO_MMIO_QUEUE_USED_HIGH,
     VIRTIO_MMIO_QUEUE_DESC_LOW, VIRTIO_MMIO_QUEUE_USED_LOW}

\* bus words whose halves differ
LaneData == {<<0, 1, 0, 0>>, <<0, 0, 0, 1>>, <<0, 2, 0, 5>>, <<3, 0, 0, 2>>}

\* the guest writes data to the register at offset: the dispatcher forwards
\* the write to virtio_mmio_write
LaneWrite ==
    /\ chan.served < MaxLaneRequests
    /\ \E offset \in LaneOffsets, data \in LaneData :
          LET req == [is_write |-> TRUE, addr |-> VirtioRange.addr + offset,
                      data |-> data]
              r == emulated_mmio_respond(fpga, req, <<0, 0>>)
              w == r.forwarded[1]
              val == IntOf(w.val)
          IN  /\ ~IsNegative(w.val)
              /\ dev' = virtio_mmio_write(dev, w.offset, val)
              /\ last_write' = [offset |-> w.offset, val |-> val]
              /\ fpga' = r.fpga
              /\ chan' = [served |-> chan.served + 1, req |-> <<req>>,
                          log |-> r.log, read_data |-> r.read_data,
                          forwarded |-> r.forwarded, returned |-> chan.returned]
    /\ UNCHANGED <<pump, isr, features_accepted, notifyVars, fnVars, queueVars>>

\* the guest reads the register at offset: the dispatcher calls
\* virtio_mmio_read and responds
LaneRead ==
    /\ chan.served < MaxLaneRequests
    /\ \E offset \in LaneOffsets :
          LET req == [is_write |-> FALSE, addr |-> VirtioRange.addr + offset,
                      data |-> Zero64]
              val == W32(virtio_mmio_read(dev, offset))
              r == emulated_mmio_respond(fpga, req, val)
          IN  /\ fpga' = r.fpga
              /\ chan' = [served |-> chan.served + 1, req |-> <<req>>,
                          log |-> r.log, read_data |-> r.read_data,
                          forwarded |-> r.forwarded, returned |-> chan.returned]
    /\ UNCHANGED <<pump, isr, regVars, notifyVars, fnVars, queueVars>>

LaneNext == LaneWrite \/ LaneRead

SpecLane == IoInit /\ [][LaneNext]_vars

\* the guest address has bit 2 set
AddrBit2(addr) == (addr \div 4) % 2 = 1

\* the half of the bus word that belongs to the address
LaneOf(addr, data) ==
    IF AddrBit2(addr) THEN <<data[1], data[2]>> ELSE <<data[3], data[4]>>

\* what the register at offset holds after val was written to it
LaneStored(offset, val) ==
    IF offset = VIRTIO_MMIO_QUEUE_READY THEN <<0, val[2] % 2>> ELSE val

\* the step is a read of the address that the step before wrote
ReadAfterWrite ==
    /\ chan.req # <<>>
    /\ chan.req[1].is_write
    /\ chan'.served = chan.served + 1
    /\ ~chan'.req[1].is_write
    /\ chan'.req[1].addr = chan.req[1].addr

\* C39: for every read/write 32-bit register of the range at a guest address
\* with bit 2 set, a dispatcher write takes the register value from bits
\* 63..32 of the write data and a following dispatcher read of the same
\* address responds with the register value in bits 63..32; for addresses
\* with bit 2 clear both use bits 31..0.
C39_LaneRoundTrip ==
    [][ReadAfterWrite =>
          LET addr == chan.req[1].addr
              stored == LaneStored(addr - VirtioRange.addr,
                                   LaneOf(addr, chan.req[1].data))
          IN  /\ Len(chan'.read_data) = 1
              /\ LaneOf(addr, chan'.read_data[1]) = stored]_vars

\* QueueReady (address bit 2 set) was written with 1 in bits 63..32 and 0 in
\* bits 31..0, and the read of it answered 1 in bits 63..32
C39_Witness ==
    /\ chan.served = 2
    /\ ~chan.req[1].is_write
    /\ chan.req[1].addr = VirtioRange.addr + VIRTIO_MMIO_QUEUE_READY
    /\ last_write = [offset |-> VIRTIO_MMIO_QUEUE_READY, val |-> 1]
    /\ dev.queue[0].ready = 1
    /\ chan.read_data = <<<<0, 1, 0, 0>>>>

(***************************************************************************)
(* SpecFid: the FID table of the 9P device.  The driver sends attach, walk *)
(* and clunk requests; the file system backend hands out a new FSFile for  *)
(* every successful attach and walk and is told of every release.          *)
(***************************************************************************)
\* requests served in a run and the fids the driver uses
MaxFidRequests == 4
Fids == {1, 2}

\* what fs_attach and fs_walk return: 0, or a negative error number
FsReturns == {0, -2}

\* the state of the table and of the backend's files: fid_list is the list
\* of FIDDesc {fid, fd} from its head, live the FSFiles the backend has
\* handed out and not been asked to delete, deleted the arguments of
\* fs_delete in order
FidState ==
    IF result = <<>>
    THEN [fid_list |-> <<>>, live |-> {}, deleted |-> <<>>, n_files |-> 0]
    ELSE result[1]

\* fid_find1: the position of the first FIDDesc with this fid, 0 for NULL
fid_find1(fid_list, fid) ==
    IF \E i \in DOMAIN fid_list : fid_list[i].fid = fid
    THEN CHOOSE i \in DOMAIN fid_list :
            /\ fid_list[i].fid = fid
            /\ \A j \in 1 .. (i - 1) : fid_list[j].fid # fid
    ELSE 0

\* fs->fs_delete(fs, fd): the backend releases the file
fs_delete(st, fd) ==
    [st EXCEPT !.live = @ \ {fd}, !.deleted = Append(@, fd)]

\* a rebinding that leaves the file bound before to the backend
fid_set_no_release(st, fid, fd) ==
    LET i == fid_find1(st.fid_list, fid)
    IN  IF i # 0
        THEN [st EXCEPT !.fid_list[i].fd = fd]
        ELSE [st EXCEPT !.fid_list = <<[fid |-> fid, fd |-> fd]>> \o @]

\* fid_set: rebind an existing FIDDesc after releasing its file, else add a
\* new FIDDesc at the head of the list
fid_set(st, fid, fd) ==
    LET i == fid_find1(st.fid_list, fid)
    IN  IF i # 0
        THEN [fs_delete(st, st.fid_list[i].fd) EXCEPT !.fid_list[i].fd = fd]
        ELSE [st EXCEPT !.fid_list = <<[fid |-> fid, fd |-> fd]>> \o @]

\* fid_delete: release the file and unlink the FIDDesc, if there is one
fid_delete(st, fid) ==
    LET i == fid_find1(st.fid_list, fid)
    IN  IF i # 0
        THEN [fs_delete(st, st.fid_list[i].fd) EXCEPT
                 !.fid_list = SubSeq(@, 1, i - 1) \o SubSeq(@, i + 1, Len(@))]
        ELSE st

\* fs_attach and fs_walk succeed: the backend hands out a new FSFile
fs_new_file(st) ==
    [st EXCEPT !.live = @ \cup {st.n_files + 1}, !.n_files = @ + 1]

FidInit == ChainSetup("9p", {P9Table(7, 7, 32)})

\* the request is answered and recorded
FidServed(op, fid, newfid, err, st, reply) ==
    /\ call' = <<[fn |-> op, fid |-> fid, newfid |-> newfid, err |-> err,
                  before |-> FidState]>>
    /\ result' = <<st>>
    /\ dev' = reply.dev
    /\ guest' = reply.guest
    /\ n_done' = n_done + 1
    /\ UNCHANGED <<ioVars, last_write, features_accepted, notifyVars, desc_table,
                   blk, backend, thr, dma_rec>>

FidP9 == [msize |-> W32(8192), fid_list |-> {}, req_in_progress |-> FALSE]

\* case 104 of virtio_9p_recv_request, after unmarshall: fs_attach, fid_set
\* and the reply with the qid
FidAttach ==
    /\ n_done < MaxFidRequests
    /\ \E fid \in Fids, err \in FsReturns :
          LET st == FidState
              got == fs_new_file(st)
          IN  IF err # 0
              THEN FidServed("attach", fid, 0, err, st,
                      virtio_9p_send_error(dev, guest, desc_table, FidP9, 0, 1,
                                           Sub32(W32(0), W32(-err))))
              ELSE FidServed("attach", fid, 0, err, fid_set(got, fid, got.n_files),
                      virtio_9p_send_reply(dev, guest, desc_table, FidP9, 0, 104, 1,
                                           [k \in 1 .. 13 |-> 0]))

\* case 110 of virtio_9p_recv_request with nwname = 0, after unmarshall:
\* fid_find, fs_walk, fid_set(newfid) and the reply
FidWalk ==
    /\ n_done < MaxFidRequests
    /\ \E fid \in Fids, newfid \in Fids, err \in FsReturns :
          LET st == FidState
              got == fs_new_file(st)
          IN  IF fid_find1(st.fid_list, fid) = 0
              THEN FidServed("walk", fid, newfid, -P9_EPROTO, st,
                      virtio_9p_send_error(dev, guest, desc_table, FidP9, 0, 1,
                                           Sub32(W32(0), W32(P9_EPROTO))))
              ELSE IF err < 0
              THEN FidServed("walk", fid, newfid, err, st,
                      virtio_9p_send_error(dev, guest, desc_table, FidP9, 0, 1,
                                           Sub32(W32(0), W32(-err))))
              ELSE FidServed("walk", fid, newfid, err,
                      fid_set(got, newfid, got.n_files),
                      virtio_9p_send_reply(dev, guest, desc_table, FidP9, 0, 110, 1,
                                           put_le16(0)))

\* case 120 of virtio_9p_recv_request, after unmarshall: fid_delete and the
\* empty reply
FidClunk ==
    /\ n_done < MaxFidRequests
    /\ \E fid \in Fids :
          FidServed("clunk", fid, 0, 0, fid_delete(FidState, fid),
                    virtio_9p_send_reply(dev, guest, desc_table, FidP9, 0, 120, 1, <<>>))

FidNext == FidAttach \/ FidWalk \/ FidClunk

SpecFid == FidInit /\ [][FidNext]_vars

\* the FSFiles the list binds to fid
BoundTo(fid_list, fid) ==
    {fid_list[i].fd : i \in {j \in DOMAIN fid_list : fid_list[j].fid = fid}}

\* the table holds at most one entry per fid
OneEntryPerFid ==
    \A i, j \in DOMAIN FidState.fid_list :
       FidState.fid_list[i].fid = FidState.fid_list[j].fid => i = j

\* no FSFile has been released twice, and none that is bound was released
ReleasedOnceAndUnbound ==
    LET d == FidState.deleted
    IN  /\ \A i, j \in DOMAIN d : d[i] = d[j] => i = j
        /\ \A i \in DOMAIN FidState.fid_list :
              /\ FidState.fid_list[i].fd \in FidState.live
              /\ \A k \in DOMAIN d : d[k] # FidState.fid_list[i].fd

\* the last request bound or removed a fid that was bound before: the file
\* bound before was released once, and the fid is bound to the new file
\* after attach and walk and to none after clunk
LastRequestReleased ==
    call # <<>> =>
       LET c == call[1]
           target == IF c.fn = "walk" THEN c.newfid ELSE c.fid
           old == BoundTo(c.before.fid_list, target)
           now == BoundTo(FidState.fid_list, target)
       IN  IF c.err # 0
           THEN FidState = c.before
           ELSE /\ FidState.deleted =
                      c.before.deleted \o
                         (IF old = {} THEN <<>> ELSE <<CHOOSE fd \in old : TRUE>>)
                /\ IF c.fn = "clunk" THEN now = {}
                   ELSE now = {FidState.n_files} /\ now \cap old = {}

\* C40: after any sequence of attach, walk and clunk requests the table
\* holds at most one entry per fid; rebinding a fid releases the FSFile bound
\* before through the backend exactly once, clunk removes the entry and
\* releases its FSFile exactly once, and no FSFile is released while still
\* bound or released twice.
C40_FidTable ==
    /\ OneEntryPerFid
    /\ ReleasedOnceAndUnbound
    /\ LastRequestReleased

\* attach bound fid 1, a walk from fid 1 to fid 1 rebound it and released
\* the first file, and clunk removed the entry and released the second
C40_Witness ==
    /\ n_done = 3
    /\ call[1].fn = "clunk"
    /\ call[1].fid = 1
    /\ call[1].before.fid_list = <<[fid |-> 1, fd |-> 2]>>
    /\ call[1].before.deleted = <<1>>
    /\ FidState.fid_list = <<>>
    /\ FidState.deleted = <<1, 2>>
====
